---- MODULE Spec2Model ----
(***************************************************************************)
(* A model of the LSP client layer of the editor (src/src/lsp.rs) and of   *)
(* the part of the editor event loop that drives it (src/src/editor.rs).   *)
(*                                                                         *)
(* The module holds several specifications over one set of variables:      *)
(*   SpecFrame   the wire codec of one client: the frame written by        *)
(*               LspClient::send and the inbound path read_response /      *)
(*               read_response_from_buf, byte by byte (bytes are their     *)
(*               ASCII codes);                                             *)
(*   SpecDecode  the semantic-token delta decoding;                        *)
(*   SpecManager LspClientManager driven through its public methods;       *)
(*   Spec        the editor event loop (Editor::run) around the manager;   *)
(*   SpecClient, SpecSend   one client under its manager, its events and   *)
(*               its outbound path;                                        *)
(*   SpecSendFair  SpecSend with a pipe that becomes writable in the end;  *)
(*   SpecDispatch  one client whose reads bring several responses;         *)
(*   SpecNotify, SpecRender, SpecFlow   the editor serving the requests of *)
(*               its peers: the two notifications of the LSP layer, the    *)
(*               cursor requests and the redraw flag, and the whole way    *)
(*               from StartLsp to the tokens of a buffer, with fairness;   *)
(*   SpecStream  the inbound path of a client on a stream of header        *)
(*               blocks and bodies, read in chunks;                        *)
(*   SpecBinding the ActionBindingSystem of src/src/action.rs.             *)
(* A specification leaves the variables of the others at their initial     *)
(* values.                                                                 *)
(***************************************************************************)
EXTENDS Integers, Sequences, FiniteSets, TLC

VARIABLES
    \* ---- SpecFrame: one client's inbound path ----
    msg,              \* the JSON-RPC message the peer serialises, or the
                      \* blocks of the stream the server writes
    pending,          \* bytes of the frame the peer has not written yet
    recv_buf,         \* LspClient::recv_buf[..recv_buf_offset]
    recv_buf_offset,  \* LspClient::recv_buf_offset
    recv_buf_len,     \* recv_buf.len(): the Vec's length, filled or not
    parsed,           \* every response pushed onto LspClient::responses
    pieces,           \* number of deliveries made so far, up to MaxPieces
    read_status,      \* outcome of the last read_response call
    \* ---- SpecDecode: one semanticTokens/full response ----
    data,             \* Response::data, the flat integer array
    semantic_token_types, \* LspClient::semantic_token_types, the legend
    tokens,           \* the tokens of the NotifySemanticTokens cast
    decode_status,    \* "pending", then "ok" or "panic"
    \* ---- SpecManager and Spec: LspClientManager and the poller ----
    clients,          \* LspClientManager::clients: name -> LspClient
    token_to_client_id, \* LspClientManager::token_to_client_id
    next_token,       \* LspClientManager::next_token
    registry,         \* the poller's registrations: <<name, pipe>> ->
                      \* [token, interest] for the pipes of live clients
    spawn_count,      \* Command::spawn calls made so far
    call,             \* the last call into the LSP layer: [op, name,
                      \* caller, tokens, result, fault]
    \* ---- Spec: the editor ----
    loop,             \* where Editor::run is: "poll" (in poller.poll),
                      \* "recv" (draining try_recv), or ended: "exited"
                      \* (Ok), "failed" (Err), "panicked", "hung"
    exit,             \* Editor::exit
    inflight,         \* requests written to the editor's socket that
                      \* rpc_server has not read yet
    rpc_queue,        \* requests rpc_server has read, for try_recv
    request_count,    \* requests the RPC peers have made so far
    buffers,          \* Editor::buffers: buffer id -> Buffer
    needs_redraw,     \* Editor::needs_redraw
    replies,          \* responses sent with rpc_server.reply
    current_buffer_id, \* Editor::current_buffer_id
    \* ---- SpecClient: one client under its manager ----
    sends,            \* the calls of LspClient::send made so far: [method,
                      \* buffer_id, len, send_buf_len, accepted]
    emitted,          \* the requests cast to the editor so far
    event,            \* the last event handled: None, or Some of [token,
                      \* status, frames], the token with what try_wait
                      \* returned and what was read from stdout
    \* ---- SpecRender: the rendering of Editor::run ----
    rendered,         \* did the iteration that ended last call render?
    \* ---- SpecBinding: one ActionBindingSystem ----
    binding_system    \* [context, bindings, last_input, last_binding,
                      \* result]: the fields of the system, and what the
                      \* last call returned

frame_vars == <<msg, pending, recv_buf, recv_buf_offset, recv_buf_len,
                parsed, pieces, read_status>>

decode_vars == <<data, semantic_token_types, tokens, decode_status>>

mgr_vars == <<clients, token_to_client_id, next_token, registry,
              spawn_count, call>>

editor_vars == <<loop, exit, inflight, rpc_queue, request_count, buffers,
                 needs_redraw, replies, current_buffer_id>>

client_vars == <<sends, emitted, event>>

ui_vars == <<rendered, binding_system>>

vars == <<frame_vars, decode_vars, mgr_vars, editor_vars, client_vars,
         ui_vars>>

(***************************************************************************)
(* Bounds                                                                  *)
(***************************************************************************)
\* Largest length of a recv_buf that earlier frames have shrunk (drain
\* shortens the Vec, lsp.rs:531), tried besides the fresh 4096-byte one.
MaxShrunkLen == 1

\* Deliveries of one frame that are counted: one more is not told apart.
MaxPieces == 2

\* Largest number of 5-tuples in the data of a semanticTokens response.
MaxTuples == 2

\* Largest number of integers left over after the last whole 5-tuple.
MaxRemainder == 1

\* The token range [MinToken, MinToken + TokenRange) handed to
\* LspClientManager::new, a small stand-in for the editor's
\* [usize::MAX / 2, usize::MAX); the tokens below MinToken are the RPC
\* server's. The editor's range has 2^63 tokens, which 3 does not divide
\* (the remainder is 2), so that after a wrap the triples begin at other
\* tokens than before; TokenRange leaves the same remainder.
MinToken == 2
TokenRange == 8

\* Command::spawn calls made in one run.
MaxSpawns == 4

\* Responses parsed out of one read of a client's stdout.
MaxFramesPerRead == 1

\* Largest number of responses one read of stdout queues in SpecDispatch.
MaxQueued == 2

\* Requests the RPC peers make in one run.
MaxRequests == 2

\* Largest request id carried by the messages of SpecFrame.
MaxFrameId == 1

\* Calls of notify_did_open and request_semantic_tokens_full made on the
\* client of SpecClient in one run.
MaxSends == 3

\* The same, on the client of SpecClient.
MaxClientSends == 2

\* Requests the RPC peers make in one run of SpecNotify.
MaxNotifyRequests == 4

\* Length of the text of a large buffer: two of them pass the send buffer's
\* limit of 10240 bytes, one does not.
BigTextLen == 6000

\* SpecRender: the requests the RPC peers make
MaxRenderRequests == 3

(***************************************************************************)
(* Small helpers                                                           *)
(***************************************************************************)
Min(S) == CHOOSE x \in S : \A y \in S : x <= y

\* s[from..] with a 0-based `from`, as a Rust slice
SliceFrom(s, from) == SubSeq(s, from + 1, Len(s))

\* s[from..to] with 0-based bounds, `to` exclusive
Slice(s, from, to) == SubSeq(s, from + 1, to)

\* Option<T>: None is the empty sequence, Some(x) the sequence <<x>>
NoneOpt == <<>>
Some(x) == <<x>>

\* HashMap and BTreeMap: insert, remove, new
Put(f, k, v) == [x \in DOMAIN f \cup {k} |-> IF x = k THEN v ELSE f[x]]

Remove(f, ks) == [x \in DOMAIN f \ ks |-> f[x]]

EmptyMap == [x \in {} |-> x]

\* Every sequence over S of length at most n
RECURSIVE SeqsUpTo(_, _)
SeqsUpTo(S, n) ==
    IF n = 0 THEN {<<>>}
    ELSE LET shorter == SeqsUpTo(S, n - 1)
         IN  shorter \cup {Append(q, x) : q \in shorter, x \in S}

(***************************************************************************)
(* JSON-RPC messages and serde_json                                        *)
(*                                                                         *)
(* A message is a record [kind, method, id, payload]:                      *)
(*   kind "request"       what LspClient::send writes with an id           *)
(*   kind "notification"  what LspClient::send writes without an id        *)
(*   kind "result"        jsonlrpc::ResponseObject::Ok                     *)
(*   kind "error"         jsonlrpc::ResponseObject::Err                    *)
(* id is Some(n), or None for a notification and for an error response     *)
(* whose id is null; method is "-" for a response.                         *)
(***************************************************************************)
\* usize::to_string, i64 Display for a non-negative number: decimal digits
RECURSIVE to_string(_)
to_string(n) ==
    IF n < 10 THEN <<48 + n>>
    ELSE to_string(n \div 10) \o <<48 + (n % 10)>>

\* "null"
JsonNull == <<110,117,108,108>>

MethodBytes(m) ==
    CASE m = "initialize" ->
           <<105,110,105,116,105,97,108,105,122,101>>
      [] m = "textDocument/didOpen" ->
           <<116,101,120,116,68,111,99,117,109,101,110,116,47,100,105,100,
             79,112,101,110>>
      [] m = "initialized" ->
           <<105,110,105,116,105,97,108,105,122,101,100>>
      [] m = "textDocument/semanticTokens/full" ->
           <<116,101,120,116,68,111,99,117,109,101,110,116,47,115,101,109,
             97,110,116,105,99,84,111,107,101,110,115,47,102,117,108,108>>

PayloadBytes(p) ==
    CASE p = "null" -> JsonNull
         \* {"data":[0,5,3,1,0]}
      [] p = "tokens" ->
           <<123,34,100,97,116,97,34,58,91,48,44,53,44,51,44,49,44,48,93,125>>
         \* {"code":-32600,"message":"x"}
      [] p = "error" ->
           <<123,34,99,111,100,101,34,58,45,51,50,54,48,48,44,34,109,101,
             115,115,97,103,101,34,58,34,120,34,125>>
         \* {"textDocument":{"uri":"file:///a"}}
      [] p = "document" ->
           <<123,34,116,101,120,116,68,111,99,117,109,101,110,116,34,58,
             123,34,117,114,105,34,58,34,102,105,108,101,58,47,47,47,97,
             34,125,125>>
         \* the InitializeResult handle_initialize_response reads
         \* (lsp.rs:419-445), with the legend [comment]:
         \* {"capabilities":{"semanticTokensProvider":{"legend":
         \* {"tokenTypes":["comment"]}}}}
      [] p = "capabilities" ->
           <<123,34,99,97,112,97,98,105,108,105,116,105,101,115,34,58,123,
             34,115,101,109,97,110,116,105,99,84,111,107,101,110,115,80,
             114,111,118,105,100,101,114,34,58,123,34,108,101,103,101,110,
             100,34,58,123,34,116,111,107,101,110,84,121,112,101,115,34,58,
             91,34,99,111,109,109,101,110,116,34,93,125,125,125,125>>
         \* InitializeParams::new("/r") (lsp.rs:584-602):
         \* {"rootUri":"/r","clientInfo":null,"capabilities":{"workspace":
         \* {"workspaceEdit":{"documentChanges":true}},"general":
         \* {"positionEncodings":["utf-16"]}},"workspaceFolders":[]}
      [] p = "initialize" ->
           <<123,34,114,111,111,116,85,114,105,34,58,34,47,114,34,44,
             34,99,108,105,101,110,116,73,110,102,111,34,58,110,117,108,
             108,44,34,99,97,112,97,98,105,108,105,116,105,101,115,34,
             58,123,34,119,111,114,107,115,112,97,99,101,34,58,123,34,
             119,111,114,107,115,112,97,99,101,69,100,105,116,34,58,123,
             34,100,111,99,117,109,101,110,116,67,104,97,110,103,101,115,
             34,58,116,114,117,101,125,125,44,34,103,101,110,101,114,97,
             108,34,58,123,34,112,111,115,105,116,105,111,110,69,110,99,
             111,100,105,110,103,115,34,58,91,34,117,116,102,45,49,54,
             34,93,125,125,44,34,119,111,114,107,115,112,97,99,101,70,
             111,108,100,101,114,115,34,58,91,93,125>>
         \* the didOpen params of a buffer with an empty text (lsp.rs:470):
         \* {"textDocument":{"languageId":"erlang","text":"",
         \* "uri":"file:///a","version":0}}
      [] p = "didOpen" ->
           <<123,34,116,101,120,116,68,111,99,117,109,101,110,116,34,58,
             123,34,108,97,110,103,117,97,103,101,73,100,34,58,34,101,
             114,108,97,110,103,34,44,34,116,101,120,116,34,58,34,34,
             44,34,117,114,105,34,58,34,102,105,108,101,58,47,47,47,
             97,34,44,34,118,101,114,115,105,111,110,34,58,48,125,125>>

IdBytes(id) == IF id = NoneOpt THEN JsonNull ELSE to_string(id[1])

\* serde_json::to_vec of `struct Request {jsonrpc, method, id, params}`
\* (the id is skipped when None) and of a jsonlrpc ResponseObject: compact
\* JSON, the fields in declaration order.
to_vec(m) ==
    CASE m.kind = "request" ->
           \* {"jsonrpc":"2.0","method":"  M  ","id":  N  ,"params":  P  }
           <<123,34,106,115,111,110,114,112,99,34,58,34,50,46,48,34,44,34,
             109,101,116,104,111,100,34,58,34>>
           \o MethodBytes(m.method) \o <<34,44,34,105,100,34,58>>
           \o IdBytes(m.id) \o <<44,34,112,97,114,97,109,115,34,58>>
           \o PayloadBytes(m.payload) \o <<125>>
      [] m.kind = "notification" ->
           \* {"jsonrpc":"2.0","method":"  M  ","params":  P  }
           <<123,34,106,115,111,110,114,112,99,34,58,34,50,46,48,34,44,34,
             109,101,116,104,111,100,34,58,34>>
           \o MethodBytes(m.method) \o <<34,44,34,112,97,114,97,109,115,34,58>>
           \o PayloadBytes(m.payload) \o <<125>>
      [] m.kind = "result" ->
           \* {"jsonrpc":"2.0","result":  P  ,"id":  N  }
           <<123,34,106,115,111,110,114,112,99,34,58,34,50,46,48,34,44,34,
             114,101,115,117,108,116,34,58>>
           \o PayloadBytes(m.payload) \o <<44,34,105,100,34,58>>
           \o IdBytes(m.id) \o <<125>>
      [] m.kind = "error" ->
           \* {"jsonrpc":"2.0","error":  P  ,"id":  N  }
           <<123,34,106,115,111,110,114,112,99,34,58,34,50,46,48,34,44,34,
             101,114,114,111,114,34,58>>
           \o PayloadBytes(m.payload) \o <<44,34,105,100,34,58>>
           \o IdBytes(m.id) \o <<125>>

FrameIds == {Some(n) : n \in 0..MaxFrameId}

\* What LspClient::send serialises (lsp.rs:452, 493)
RequestMessages ==
    [kind : {"request"}, method : {"textDocument/semanticTokens/full"},
     id : {Some(MaxFrameId)}, payload : {"document"}]
    \cup [kind : {"notification"}, method : {"initialized"}, id : {NoneOpt},
         payload : {"null"}]

\* The values of jsonlrpc::ResponseObject the model knows
ResponseMessages ==
    [kind : {"result"}, method : {"-"}, id : FrameIds, payload : {"null"}]
    \cup [kind : {"result"}, method : {"-"}, id : {Some(MaxFrameId)},
         payload : {"tokens"}]
    \cup [kind : {"result"}, method : {"-"}, id : {Some(0)},
         payload : {"capabilities"}]
    \cup [kind : {"error"}, method : {"-"}, id : {NoneOpt},
         payload : {"error"}]

Messages == RequestMessages \cup ResponseMessages

\* A from_slice that takes a JSON text it does not know for a response
\* without id
from_slice_takes_any_object(content) ==
    LET hits == {r \in ResponseMessages : to_vec(r) = content}
    IN  IF hits = {}
        THEN Some([kind |-> "error", method |-> "-", id |-> NoneOpt,
                   payload |-> "error"])
        ELSE Some(CHOOSE r \in hits : TRUE)

\* serde_json::from_slice::<ResponseObject>(content): Some(response) when
\* the bytes are the JSON text of a response object, None otherwise (a
\* request or a notification has neither "result" nor "error").
from_slice(content) ==
    LET hits == {r \in ResponseMessages : to_vec(r) = content}
    IN  IF hits = {} THEN NoneOpt ELSE Some(CHOOSE r \in hits : TRUE)

(***************************************************************************)
(* The wire codec                                                          *)
(***************************************************************************)
\* The initial length of recv_buf (lsp.rs:171)
RECV_BUF_SIZE == 4096

\* b"Content-Length:", the header LspClient::send writes (lsp.rs:228)
HeaderKey == <<67,111,110,116,101,110,116,45,76,101,110,103,116,104,58>>

\* "content-length:", the key the parser compares with (lsp.rs:537)
key == <<99,111,110,116,101,110,116,45,108,101,110,103,116,104,58>>

\* A header that counts the blank line's CR LF into the body length
frame_bytes_counts_blank_line(content) ==
    HeaderKey \o to_string(Len(content) + 2) \o <<13,10,13,10>> \o content

\* The bytes LspClient::send appends to send_buf for a serialised request
\* (lsp.rs:228-232): the key, the body's byte length, a blank line, the body
frame_bytes(content) ==
    HeaderKey \o to_string(Len(content)) \o <<13,10,13,10>> \o content

\* The frame of a message: serde_json::to_vec (lsp.rs:226), then the header
encode(m) == frame_bytes(to_vec(m))

\* slice.windows(2).position(|b| b == b"\r\n"): Some(0-based index) or None
position_crlf(s) ==
    LET hits == {i \in 1..(Len(s) - 1) : s[i] = 13 /\ s[i + 1] = 10}
    IN  IF hits = {} THEN NoneOpt ELSE Some(Min(hits) - 1)

\* std::str::from_utf8(..).is_ok(). The bytes of the model are ASCII or
\* 0xFF, which no UTF-8 text holds, so a line is valid when it is ASCII.
is_utf8(s) == \A i \in 1..Len(s) : s[i] < 128

to_ascii_lowercase(b) == IF b >= 65 /\ b <= 90 THEN b + 32 ELSE b

\* A comparison that tells the cases apart
eq_with_case(a, b) == a = b

eq_ignore_ascii_case(a, b) ==
    /\ Len(a) = Len(b)
    /\ \A i \in 1..Len(a) : to_ascii_lowercase(a[i]) = to_ascii_lowercase(b[i])

\* char::is_whitespace for an ASCII byte
is_whitespace(b) == b \in {9, 10, 11, 12, 13, 32}

\* str::trim
trim(s) ==
    LET keep == {i \in 1..Len(s) : ~is_whitespace(s[i])}
    IN  IF keep = {} THEN <<>>
        ELSE SubSeq(s, Min(keep), CHOOSE i \in keep : \A j \in keep : j <= i)

RECURSIVE digits_value(_)
digits_value(s) ==
    IF s = <<>> THEN 0
    ELSE 10 * digits_value(SubSeq(s, 1, Len(s) - 1)) + (s[Len(s)] - 48)

\* str::parse::<usize>(): Some(n) for an optional '+' and one or more
\* decimal digits, None otherwise. (The lengths of the model have at most
\* four digits, so the overflow error of a 64-bit usize is out of reach.)
parse_usize(s) ==
    LET d == IF s # <<>> /\ s[1] = 43 THEN Tail(s) ELSE s
    IN  IF d # <<>> /\ \A i \in 1..Len(d) : d[i] >= 48 /\ d[i] <= 57
        THEN Some(digits_value(d)) ELSE NoneOpt

\* One pass of the `while let` loop of read_response_from_buf and the
\* passes after it. buf is recv_buf[..roff], vlen is recv_buf.len(),
\* content_len and offset are the function's locals. The result is the
\* client's fields when the function returns, and whether it returned Ok.
RECURSIVE parse_loop(_, _, _, _, _, _)
parse_loop(buf, roff, vlen, resp, content_len, offset) ==
    LET line_end == position_crlf(Slice(buf, offset, roff))
        done(ok) == [recv_buf |-> buf, recv_buf_offset |-> roff,
                     recv_buf_len |-> vlen, responses |-> resp, ok |-> ok]
    IN  IF line_end = NoneOpt THEN done(TRUE)
        ELSE IF line_end[1] = 0 THEN
            IF content_len = NoneOpt THEN done(FALSE)
            ELSE LET n == content_len[1]
                     body == offset + 2
                 IN  IF roff - body < n THEN done(TRUE)
                     ELSE LET content == Slice(buf, body, body + n)
                              response == from_slice(content)
                          IN  parse_loop(SliceFrom(buf, body + n),
                                         roff - (body + n),
                                         vlen - (body + n),
                                         resp \o response,
                                         content_len, 0)
        ELSE LET line == Slice(buf, offset, offset + line_end[1])
                 next == offset + line_end[1] + 2
             IN  IF ~is_utf8(line) THEN done(FALSE)
                 ELSE IF Len(line) > Len(key)
                         /\ eq_ignore_ascii_case(Slice(line, 0, Len(key)), key)
                 THEN LET value == parse_usize(trim(SliceFrom(line, Len(key))))
                      IN  IF value = NoneOpt THEN done(FALSE)
                          ELSE parse_loop(buf, roff, vlen, resp, value, next)
                 ELSE parse_loop(buf, roff, vlen, resp, content_len, next)

\* A parser that, waiting for the rest of a body, drops the header and the
\* part of the body it has
read_response_from_buf_forgets_partial(buf, roff, vlen, resp) ==
    LET r == parse_loop(buf, roff, vlen, resp, NoneOpt, 0)
        b == r.recv_buf
        header_read == \E i \in 1..(Len(b) - 3) :
                          SubSeq(b, i, i + 3) = <<13,10,13,10>>
    IN  IF r.ok /\ header_read
        THEN [r EXCEPT !.recv_buf = <<>>, !.recv_buf_offset = 0]
        ELSE r

\* LspClient::read_response_from_buf
read_response_from_buf(buf, roff, vlen, resp) ==
    parse_loop(buf, roff, vlen, resp, NoneOpt, 0)

\* LspClient::read_response with `wire` the bytes waiting in the stdout
\* pipe of a live server: a read returns as many of them as fit into
\* recv_buf[recv_buf_offset..], WouldBlock when none waits, and Ok(0) for an
\* empty buffer, which the assertion turns into a panic.
RECURSIVE read_response(_, _, _, _, _)
read_response(wire, buf, roff, vlen, resp) ==
    LET len == IF vlen = roff THEN roff * 2 ELSE vlen
        size == IF Len(wire) < len - roff THEN Len(wire) ELSE len - roff
        out(status) == [recv_buf |-> buf, recv_buf_offset |-> roff,
                        recv_buf_len |-> len, responses |-> resp,
                        status |-> status]
    IN  IF len - roff = 0 THEN out("panic")
        ELSE IF wire = <<>> THEN out("ok")
        ELSE LET r == read_response_from_buf(buf \o SubSeq(wire, 1, size),
                                             roff + size, len, resp)
             IN  IF ~r.ok
                 THEN [recv_buf |-> r.recv_buf,
                       recv_buf_offset |-> r.recv_buf_offset,
                       recv_buf_len |-> r.recv_buf_len,
                       responses |-> r.responses, status |-> "err"]
                 ELSE read_response(SliceFrom(wire, size), r.recv_buf,
                                    r.recv_buf_offset, r.recv_buf_len,
                                    r.responses)

(***************************************************************************)
(* SpecFrame: the peer writes the frame of one message in pieces; after    *)
(* each piece the client handles the readable event of its stdout.         *)
(***************************************************************************)
IdleFrame ==
    /\ msg = NoneOpt
    /\ pending = <<>>
    /\ recv_buf = <<>>
    /\ recv_buf_offset = 0
    /\ recv_buf_len = RECV_BUF_SIZE
    /\ parsed = <<>>
    /\ pieces = 0
    /\ read_status = "ok"

IdleDecode ==
    /\ data = <<>>
    /\ semantic_token_types = <<>>
    /\ tokens = <<>>
    /\ decode_status = "pending"

\* No manager call was made yet
NoCall ==
    [op |-> "none", name |-> "-", caller |-> NoneOpt, tokens |-> <<>>,
     result |-> "-", fault |-> "none"]

\* LspClientManager::new(addr, min_token, max_token)
IdleManager ==
    /\ clients = EmptyMap
    /\ token_to_client_id = EmptyMap
    /\ next_token = MinToken
    /\ registry = EmptyMap
    /\ spawn_count = 0
    /\ call = NoCall

\* Editor::new
IdleEditor ==
    /\ loop = "poll"
    /\ exit = FALSE
    /\ inflight = <<>>
    /\ rpc_queue = <<>>
    /\ request_count = 0
    /\ buffers = EmptyMap
    /\ needs_redraw = TRUE
    /\ replies = {}
    /\ current_buffer_id = NoneOpt

\* Nothing was sent to a client, cast to the editor or handled yet
IdleClient ==
    /\ sends = <<>>
    /\ emitted = <<>>
    /\ event = NoneOpt

\* No ActionBindingSystem was loaded
NoSystem ==
    [context |-> "-", bindings |-> <<>>, last_input |-> NoneOpt,
     last_binding |-> NoneOpt,
     result |-> [op |-> "none", arg |-> "-", value |-> "-"]]

\* No iteration has ended, no binding system is loaded
IdleUi ==
    /\ rendered = FALSE
    /\ binding_system = NoSystem

RecvLens(frame) == {RECV_BUF_SIZE, Len(frame)} \cup (1..MaxShrunkLen)

InitFrame ==
    /\ msg \in Messages
    /\ pending = encode(msg)
    /\ recv_buf = <<>>
    /\ recv_buf_offset = 0
    /\ recv_buf_len \in RecvLens(encode(msg))
    /\ parsed = <<>>
    /\ pieces = 0
    /\ read_status = "ok"
    /\ IdleDecode
    /\ IdleManager
    /\ IdleEditor
    /\ IdleClient
    /\ IdleUi

\* The peer writes the next k bytes; the client reads until WouldBlock.
Deliver(k) ==
    /\ read_status = "ok"
    /\ k \in 1..Len(pending)
    /\ \E r \in {read_response(SubSeq(pending, 1, k), recv_buf,
                                recv_buf_offset, recv_buf_len, <<>>)} :
           /\ recv_buf' = r.recv_buf
           /\ recv_buf_offset' = r.recv_buf_offset
           /\ recv_buf_len' = r.recv_buf_len
           /\ parsed' = parsed \o r.responses
           /\ read_status' = r.status
    /\ pending' = SliceFrom(pending, k)
    /\ pieces' = IF pieces < MaxPieces THEN pieces + 1 ELSE pieces
    /\ msg' = msg
    /\ UNCHANGED <<decode_vars, mgr_vars, editor_vars, client_vars, ui_vars>>

NextFrame == \E k \in 1..Len(pending) : Deliver(k)

SpecFrame == InitFrame /\ [][NextFrame]_vars

(***************************************************************************)
(* Claims on the wire codec                                                *)
(***************************************************************************)
\* The frame of msg was delivered in one piece
WholeDelivered == pieces = 1 /\ pending = <<>>

\* C1 as stated: for every JSON-RPC message, feeding the encoder's bytes to
\* the frame parser yields exactly that one message and leaves zero bytes
\* buffered (recv_buf_offset back at 0).
C1_RoundTripEveryMessage ==
    WholeDelivered =>
        /\ parsed = <<msg>>
        /\ recv_buf_offset = 0
        /\ recv_buf = <<>>

\* C1 amended: the round trip holds for every response message (a result or
\* an error object); the frame of a request or of a notification is
\* consumed whole as well, and yields no message.
C1_RoundTripResponses ==
    WholeDelivered =>
        /\ parsed = IF msg \in ResponseMessages THEN <<msg>> ELSE <<>>
        /\ recv_buf_offset = 0
        /\ recv_buf = <<>>

C1_Witness ==
    /\ WholeDelivered
    /\ msg \in ResponseMessages
    /\ parsed = <<msg>>
    /\ recv_buf_offset = 0

\* What a fresh client parses from the frame of m delivered whole
whole_delivery(m) == read_response(encode(m), <<>>, 0, RECV_BUF_SIZE, <<>>)

\* C2: however the frame is cut into pieces, parsing after each piece
\* yields what whole delivery yields: nothing before the last byte has
\* arrived, and at the end the same frames, once each, with no byte left in
\* the buffer.
C2_PartialDelivery ==
    /\ pending # <<>> => parsed = <<>>
    /\ pending = <<>> =>
           /\ parsed = whole_delivery(msg).responses
           /\ recv_buf_offset = 0
           /\ recv_buf = <<>>

C2_Witness ==
    /\ pending = <<>>
    /\ pieces >= 2
    /\ parsed = <<msg>>
    /\ recv_buf_offset = 0

(***************************************************************************)
(* Semantic-token decoding                                                 *)
(***************************************************************************)
\* A loop that reads the token type from the last number of the chunk
RECURSIVE decode_loop_type_of_modifiers(_, _, _, _, _, _)
decode_loop_type_of_modifiers(d, legend, i, line, column, out) ==
    IF 5 * i + 5 > Len(d) THEN [status |-> "ok", tokens |-> out]
    ELSE IF d[5 * i + 5] >= Len(legend)
    THEN [status |-> "panic", tokens |-> out]
    ELSE decode_loop_type_of_modifiers(
             d, legend, i + 1, line + d[5 * i + 1], d[5 * i + 2],
             Append(out, [line |-> line + d[5 * i + 1],
                          column |-> d[5 * i + 2],
                          token_len |-> d[5 * i + 3],
                          token_type |-> legend[d[5 * i + 5] + 1]]))

\* The body of the `for chunk in data.chunks_exact(5)` loop and the passes
\* after it: i is the 0-based index of the chunk, line and column are the
\* running cursors, out the tokens pushed so far. Indexing the legend with
\* a token type it does not hold panics.
RECURSIVE decode_loop(_, _, _, _, _, _)
decode_loop(d, legend, i, line, column, out) ==
    IF 5 * i + 5 > Len(d) THEN [status |-> "ok", tokens |-> out]
    ELSE LET delta_line == d[5 * i + 1]
             delta_start == d[5 * i + 2]
             token_len == d[5 * i + 3]
             type_index == d[5 * i + 4]
             line2 == line + delta_line
             column2 == (IF delta_line = 0 THEN 0 ELSE column) + delta_start
         IN  IF type_index >= Len(legend)
             THEN [status |-> "panic", tokens |-> out]
             ELSE decode_loop(d, legend, i + 1, line2, column2,
                              Append(out, [line |-> line2,
                                           column |-> column2,
                                           token_len |-> token_len,
                                           token_type |-> legend[type_index + 1]]))

\* The decoding of handle_semantic_tokens_full_response (lsp.rs:374-394)
decode_tokens(d, legend) == decode_loop(d, legend, 0, 0, 0, <<>>)

\* The 5-tuples (deltaLine, deltaStartChar, length, tokenType, modifiers)
\* a response is built from
Tuples ==
    {<<dl, ds, len, ty, md>> :
        dl \in {0, 1}, ds \in {2, 5}, len \in {3, 4}, ty \in {0, 1, 2},
        md \in {0, 1}}

RECURSIVE TupleSeqs(_)
TupleSeqs(n) ==
    IF n = 0 THEN {<<>>}
    ELSE TupleSeqs(n - 1)
         \cup {s \o t : s \in {x \in TupleSeqs(n - 1) : Len(x) = 5 * (n - 1)},
                       t \in Tuples}

Legends == {<<"keyword", "variable">>, <<"comment">>}

InitDecode ==
    /\ \E s \in TupleSeqs(MaxTuples), r \in 0..MaxRemainder :
           data = s \o [i \in 1..r |-> 0]
    /\ semantic_token_types \in Legends
    /\ tokens = <<>>
    /\ decode_status = "pending"
    /\ IdleFrame
    /\ IdleManager
    /\ IdleEditor
    /\ IdleClient
    /\ IdleUi

\* handle_semantic_tokens_full_response on a success response with `data`
HandleSemanticTokensFullResponse ==
    /\ decode_status = "pending"
    /\ \E r \in {decode_tokens(data, semantic_token_types)} :
           /\ tokens' = r.tokens
           /\ decode_status' = r.status
    /\ UNCHANGED <<data, semantic_token_types, frame_vars, mgr_vars,
                   editor_vars, client_vars, ui_vars>>

NextDecode == HandleSemanticTokensFullResponse

SpecDecode == InitDecode /\ [][NextDecode]_vars

\* The absolute positions the delta rule of the claim gives: line +=
\* deltaLine; column kept when deltaLine = 0 and reset to 0 otherwise; then
\* column += deltaStartChar.
RECURSIVE claimed_positions(_, _, _, _)
claimed_positions(d, i, line, column) ==
    IF 5 * i + 5 > Len(d) THEN <<>>
    ELSE LET line2 == line + d[5 * i + 1]
             column2 == (IF d[5 * i + 1] = 0 THEN column ELSE 0) + d[5 * i + 2]
         IN  <<(<<line2, column2>>)>> \o claimed_positions(d, i + 1, line2, column2)

positions(ts) == [i \in 1..Len(ts) |-> <<ts[i].line, ts[i].column>>]

\* C3: every decoded token carries the absolute (line, column) of the delta
\* rule (column kept on the same line, reset on a new line); the tuples
\* (0,5,3,1,0),(1,2,4,1,0) give (line 0, col 5) and (line 1, col 2).
C3_DeltaDecoding ==
    decode_status = "ok" =>
        /\ positions(tokens) = claimed_positions(data, 0, 0, 0)
        /\ data = <<0, 5, 3, 1, 0, 1, 2, 4, 1, 0>>
               => positions(tokens) = <<(<<0, 5>>), (<<1, 2>>)>>

\* The number of whole 5-tuples of the response array
tuple_count == Len(data) \div 5

\* Every token type index of the array is an index of the legend
TypesInLegend ==
    \A i \in 1..tuple_count : data[5 * i - 1] < Len(semantic_token_types)

\* The array with every tokenModifiers field set to zero
without_modifiers(d) ==
    [i \in 1..Len(d) |-> IF i % 5 = 0 THEN 0 ELSE d[i]]

\* C27: for a response whose token type indices are indices of the legend
\* stored at initialize, decoding emits one token for each whole 5-tuple,
\* in the order of the array; the token has the length of its tuple and
\* the type the legend holds at the tuple's index, and the tokens are those
\* of the same array with all tokenModifiers zero.
C27_OneTokenPerTuple ==
    (decode_status # "pending" /\ TypesInLegend) =>
        /\ decode_status = "ok"
        /\ Len(tokens) = tuple_count
        /\ \A i \in 1..tuple_count :
               /\ tokens[i].token_len = data[5 * i - 2]
               /\ tokens[i].token_type =
                      semantic_token_types[data[5 * i - 1] + 1]
        /\ tokens = decode_tokens(without_modifiers(data),
                                  semantic_token_types).tokens

C27_Witness ==
    /\ decode_status = "ok"
    /\ tuple_count = MaxTuples
    /\ Len(data) > 5 * tuple_count
    /\ Len(tokens) = MaxTuples
    /\ data[5] # 0
    /\ data[4] # data[9]
    /\ tokens[1].token_type # tokens[2].token_type
    /\ tokens[1].token_len # tokens[2].token_len


(***************************************************************************)
(* LspClient at the level of messages                                      *)
(*                                                                         *)
(* An LspClient is a record [name, stdin_token, stdout_token,               *)
(* stderr_token, send_buf_len, send_buf_offset, outbox, next_request_id,   *)
(* ongoing_requests, semantic_token_types, accepted_len, written_to,       *)
(* in_order]: send_buf_len is send_buf.len(), send_buf_offset how much of  *)
(* it has been written, outbox the messages appended to send_buf so far.   *)
(* The last three fields keep the history of the pipe: accepted_len is the *)
(* length of all the frames appended so far, written_to the place in that  *)
(* stream where the last write to stdin ended, in_order whether every      *)
(* write began where the one before it had ended. What the operating       *)
(* system and the server decide is an input `io` of the operators:         *)
(*   status    try_wait: "running", "exited" or "err"                      *)
(*   writable, readable   the flags of the event                           *)
(*   flush     the writes of the flush a writable event starts:            *)
(*             "all" written, "would_block" before a byte is written,      *)
(*             "partial" (half of what is left is written, then            *)
(*             WouldBlock) or "err"                                        *)
(*   frames    the responses read_response parses from stdout              *)
(*   read_end  how the reads end: "would_block", "io_err", "framing_err"   *)
(*             (read_response_from_buf returned Err) or "eof" (read        *)
(*             returned Ok(0))                                             *)
(*   write     the writes of a send made while handling a response         *)
(*   cast      rpc::cast to the editor: "ok" or "err"                      *)
(***************************************************************************)
\* const SEND_BUF_SIZE_LIMIT (lsp.rs:93)
SEND_BUF_SIZE_LIMIT == 1024 * 10

\* The JSON-RPC message of an outbox entry [method, id, buffer_id]
wire_message(m) ==
    [kind |-> IF m.id = NoneOpt THEN "notification" ELSE "request",
     method |-> m.method,
     id |-> m.id,
     payload |-> CASE m.method = "initialize" -> "initialize"
                   [] m.method = "initialized" -> "null"
                   [] m.method = "textDocument/didOpen" -> "didOpen"
                   [] m.method = "textDocument/semanticTokens/full" -> "document"]

\* content.len() of a message; text_len is the length of the buffer text a
\* didOpen carries
content_len(m, text_len) == Len(to_vec(wire_message(m))) + text_len

\* The bytes send appends for a body of n bytes (lsp.rs:228-232)
frame_len(n) == Len(HeaderKey \o to_string(n) \o <<13,10,13,10>>) + n

\* The place, in the stream of all the bytes send has appended to send_buf
\* since the start, of send_buf[send_buf_offset]
stream_position(c) == c.accepted_len - c.send_buf_len + c.send_buf_offset

\* stdin.write(&send_buf[send_buf_offset..]) returns Ok(size): the pipe
\* gets these bytes of the stream after those it has (written_to counts
\* them; in_order tells whether every write began where the one before it
\* had ended), and the offset moves on.
write(c, size) ==
    IF size <= 0 THEN c
    ELSE [c EXCEPT !.in_order = @ /\ stream_position(c) = c.written_to,
                   !.written_to = stream_position(c) + size,
                   !.send_buf_offset = @ + size]

\* A flush that, when the pipe would block, leaves the registration of
\* stdin as it is
flush_without_interest(c, reg, is_first, w) ==
    IF c.send_buf_offset >= c.send_buf_len \/ w = "all"
    THEN [client |-> [write(c, c.send_buf_len - c.send_buf_offset)
                         EXCEPT !.send_buf_len = 0, !.send_buf_offset = 0],
          registry |-> reg, ok |-> TRUE]
    ELSE IF w \in {"would_block", "partial"}
    THEN [client |-> IF w = "partial"
                     THEN write(c, (c.send_buf_len - c.send_buf_offset)
                                       \div 2)
                     ELSE c,
          registry |-> reg,
          ok |-> TRUE]
    ELSE [client |-> c, registry |-> reg, ok |-> FALSE]

\* A flush that, after a write that took a part, leaves the offset where
\* it was
flush_keeps_offset(c, reg, is_first, w) ==
    IF c.send_buf_offset >= c.send_buf_len \/ w = "all"
    THEN [client |-> [write(c, c.send_buf_len - c.send_buf_offset)
                         EXCEPT !.send_buf_len = 0, !.send_buf_offset = 0],
          registry |-> reg, ok |-> TRUE]
    ELSE IF w \in {"would_block", "partial"}
    THEN [client |-> IF w = "partial"
                     THEN [write(c, (c.send_buf_len - c.send_buf_offset)
                                        \div 2)
                              EXCEPT !.send_buf_offset = c.send_buf_offset]
                     ELSE c,
          registry |-> IF is_first
                       THEN Put(reg, <<c.name, "stdin">>,
                                [token |-> c.stdin_token, interest |-> "rw"])
                       ELSE reg,
          ok |-> TRUE]
    ELSE [client |-> c, registry |-> reg, ok |-> FALSE]

\* LspClient::flush. At rest send_buf is empty; otherwise the writes end
\* as w says: all is written, nothing is, a part is, or a write fails.
flush(c, reg, is_first, w) ==
    IF c.send_buf_offset >= c.send_buf_len \/ w = "all"
    THEN [client |-> [write(c, c.send_buf_len - c.send_buf_offset)
                         EXCEPT !.send_buf_len = 0, !.send_buf_offset = 0],
          registry |-> reg, ok |-> TRUE]
    ELSE IF w \in {"would_block", "partial"}
    THEN [client |-> IF w = "partial"
                     THEN write(c, (c.send_buf_len - c.send_buf_offset)
                                       \div 2)
                     ELSE c,
          registry |-> IF is_first
                       THEN Put(reg, <<c.name, "stdin">>,
                                [token |-> c.stdin_token, interest |-> "rw"])
                       ELSE reg,
          ok |-> TRUE]
    ELSE [client |-> c, registry |-> reg, ok |-> FALSE]

\* A send that, over the limit, drops the notifications only
send_drops_notifications_only(c, reg, method, ongoing, buffer_id, text_len, w) ==
    IF c.send_buf_len > SEND_BUF_SIZE_LIMIT /\ ongoing = NoneOpt
    THEN [client |-> c, registry |-> reg, ok |-> TRUE]
    ELSE LET m == [method |-> method,
                   id |-> IF ongoing = NoneOpt THEN NoneOpt
                          ELSE Some(c.next_request_id),
                   buffer_id |-> buffer_id]
             c1 == [c EXCEPT
                      !.ongoing_requests =
                          IF ongoing = NoneOpt THEN @
                          ELSE Put(@, c.next_request_id, ongoing[1]),
                      !.next_request_id =
                          IF ongoing = NoneOpt THEN @ ELSE @ + 1,
                      !.send_buf_len = @ + frame_len(content_len(m, text_len)),
                      !.accepted_len = @ + frame_len(content_len(m, text_len)),
                      !.outbox = Append(@, m)]
         IN  flush(c1, reg, c.send_buf_len = 0, w)

\* A send that counts the notifications it accepts as well
send_counts_notifications(c, reg, method, ongoing, buffer_id, text_len, w) ==
    IF c.send_buf_len > SEND_BUF_SIZE_LIMIT
    THEN [client |-> c, registry |-> reg, ok |-> TRUE]
    ELSE LET m == [method |-> method,
                   id |-> IF ongoing = NoneOpt THEN NoneOpt
                          ELSE Some(c.next_request_id),
                   buffer_id |-> buffer_id]
             c1 == [c EXCEPT
                      !.ongoing_requests =
                          IF ongoing = NoneOpt THEN @
                          ELSE Put(@, c.next_request_id, ongoing[1]),
                      !.next_request_id = @ + 1,
                      !.send_buf_len = @ + frame_len(content_len(m, text_len)),
                      !.accepted_len = @ + frame_len(content_len(m, text_len)),
                      !.outbox = Append(@, m)]
         IN  flush(c1, reg, c.send_buf_len = 0, w)

\* A send that gives a request it drops its id all the same
send_counts_dropped(c, reg, method, ongoing, buffer_id, text_len, w) ==
    IF c.send_buf_len > SEND_BUF_SIZE_LIMIT
    THEN [client |-> [c EXCEPT !.next_request_id =
                                   IF ongoing = NoneOpt THEN @ ELSE @ + 1],
          registry |-> reg, ok |-> TRUE]
    ELSE flush([c EXCEPT
                  !.ongoing_requests =
                      IF ongoing = NoneOpt THEN @
                      ELSE Put(@, c.next_request_id, ongoing[1]),
                  !.next_request_id =
                      IF ongoing = NoneOpt THEN @ ELSE @ + 1,
                  !.send_buf_len =
                      @ + frame_len(content_len(
                              [method |-> method,
                               id |-> IF ongoing = NoneOpt THEN NoneOpt
                                      ELSE Some(c.next_request_id),
                               buffer_id |-> buffer_id], text_len)),
                  !.accepted_len =
                      @ + frame_len(content_len(
                              [method |-> method,
                               id |-> IF ongoing = NoneOpt THEN NoneOpt
                                      ELSE Some(c.next_request_id),
                               buffer_id |-> buffer_id], text_len)),
                  !.outbox =
                      Append(@, [method |-> method,
                                 id |-> IF ongoing = NoneOpt THEN NoneOpt
                                        ELSE Some(c.next_request_id),
                                 buffer_id |-> buffer_id])],
               reg, c.send_buf_len = 0, w)

\* LspClient::send; ongoing is None or Some(tag)
send(c, reg, method, ongoing, buffer_id, text_len, w) ==
    IF c.send_buf_len > SEND_BUF_SIZE_LIMIT
    THEN [client |-> c, registry |-> reg, ok |-> TRUE]
    ELSE LET m == [method |-> method,
                   id |-> IF ongoing = NoneOpt THEN NoneOpt
                          ELSE Some(c.next_request_id),
                   buffer_id |-> buffer_id]
             c1 == [c EXCEPT
                      !.ongoing_requests =
                          IF ongoing = NoneOpt THEN @
                          ELSE Put(@, c.next_request_id, ongoing[1]),
                      !.next_request_id =
                          IF ongoing = NoneOpt THEN @ ELSE @ + 1,
                      !.send_buf_len = @ + frame_len(content_len(m, text_len)),
                      !.accepted_len = @ + frame_len(content_len(m, text_len)),
                      !.outbox = Append(@, m)]
         IN  flush(c1, reg, c.send_buf_len = 0, w)

TagInitialize == [tag |-> "Initialize", buffer_id |-> "-"]

TagSemanticTokensFull(buffer_id) ==
    [tag |-> "SemanticTokensFull", buffer_id |-> buffer_id]

\* A start that sends `initialize` as a notification, without an id and
\* without an entry of ongoing_requests
client_start_untagged(name, reg, stdin_token, stdout_token, stderr_token, w) ==
    send([name |-> name,
          stdin_token |-> stdin_token,
          stdout_token |-> stdout_token,
          stderr_token |-> stderr_token,
          send_buf_len |-> 0,
          send_buf_offset |-> 0,
          accepted_len |-> 0,
          written_to |-> 0,
          in_order |-> TRUE,
          outbox |-> <<>>,
          next_request_id |-> 0,
          ongoing_requests |-> EmptyMap,
          responses |-> <<>>,
          semantic_token_types |-> <<>>],
         Put(Put(Put(reg,
             <<name, "stdin">>, [token |-> stdin_token, interest |-> "r"]),
             <<name, "stdout">>, [token |-> stdout_token, interest |-> "r"]),
             <<name, "stderr">>, [token |-> stderr_token, interest |-> "r"]),
         "initialize", NoneOpt, "-", 0, w)

\* LspClient::start after a successful spawn: the three pipes are
\* registered for reading and the initialize request is sent.
client_start(name, reg, stdin_token, stdout_token, stderr_token, w) ==
    LET reg1 == Put(Put(Put(reg,
                    <<name, "stdin">>,
                        [token |-> stdin_token, interest |-> "r"]),
                    <<name, "stdout">>,
                        [token |-> stdout_token, interest |-> "r"]),
                    <<name, "stderr">>,
                        [token |-> stderr_token, interest |-> "r"])
        this == [name |-> name,
                 stdin_token |-> stdin_token,
                 stdout_token |-> stdout_token,
                 stderr_token |-> stderr_token,
                 send_buf_len |-> 0,
                 send_buf_offset |-> 0,
                 accepted_len |-> 0,
                 written_to |-> 0,
                 in_order |-> TRUE,
                 outbox |-> <<>>,
                 next_request_id |-> 0,
                 ongoing_requests |-> EmptyMap,
                 responses |-> <<>>,
                 semantic_token_types |-> <<>>]
    IN  send(this, reg1, "initialize", Some(TagInitialize), "-", 0, w)

\* The three tokens of a client
client_tokens(c) == {c.stdin_token, c.stdout_token, c.stderr_token}

\* Dropping an LspClient closes its pipes, which takes them out of the
\* poller; the exit path of handle_event deregisters them itself.
close_pipes(reg, name) ==
    Remove(reg, {<<name, "stdin">>, <<name, "stdout">>, <<name, "stderr">>})

\* rpc::Request, with what its handling will meet: `spawn` says whether
\* params.command can be spawned, `file` whether params.path can be read
\* and `text_len` how long its text is.
Request(method, id, name, buffer_id, ts, spawn, file, text_len) ==
    [method |-> method, id |-> id, name |-> name, buffer_id |-> buffer_id,
     tokens |-> ts, spawn |-> spawn, file |-> file, text_len |-> text_len]

NotifyLspStarted(name) ==
    Request("NotifyLspStarted", NoneOpt, name, "-", <<>>, "-", "-", 0)

NotifySemanticTokens(buffer_id, ts) ==
    Request("NotifySemanticTokens", NoneOpt, "-", buffer_id, ts, "-", "-", 0)

handler_result(c, reg, casts, outcome, fault) ==
    [client |-> c, registry |-> reg, casts |-> casts, outcome |-> outcome,
     fault |-> fault]

\* A handle_initialize_response that does not tell the editor
initialize_sent_without_cast(name, s, io) ==
    IF ~s.ok
    THEN handler_result(s.client, s.registry, <<>>, "err", "write_err")
    ELSE handler_result(s.client, s.registry, <<>>, "ok", "none")

\* handle_initialize_response once send has returned s: the cast
initialize_sent(name, s, io) ==
    IF ~s.ok
    THEN handler_result(s.client, s.registry, <<>>, "err", "write_err")
    ELSE IF io.cast = "err"
    THEN handler_result(s.client, s.registry, <<>>, "err", "cast_err")
    ELSE handler_result(s.client, s.registry, <<NotifyLspStarted(name)>>,
                        "ok", "none")

\* A handle_initialize_response that casts NotifyLspStarted without having
\* sent `initialized`
handle_initialize_response_without_initialized(c, reg, response, io) ==
    IF response.payload.kind = "error"
    THEN handler_result(c, reg, <<>>, "err", "server_error")
    ELSE IF response.payload.kind # "capabilities"
    THEN handler_result(c, reg, <<>>, "err", "bad_payload")
    ELSE initialize_sent(c.name,
             [client |-> [c EXCEPT !.semantic_token_types =
                                       response.payload.legend],
              registry |-> reg, ok |-> TRUE],
             io)

\* LspClient::handle_initialize_response
handle_initialize_response(c, reg, response, io) ==
    IF response.payload.kind = "error"
    THEN handler_result(c, reg, <<>>, "err", "server_error")
    ELSE IF response.payload.kind # "capabilities"
    THEN handler_result(c, reg, <<>>, "err", "bad_payload")
    ELSE initialize_sent(c.name,
             send([c EXCEPT !.semantic_token_types = response.payload.legend],
                  reg, "initialized", NoneOpt, "-", 0, io.write),
             io)

\* handle_semantic_tokens_full_response once the loop over the chunks has
\* returned d: the cast
tokens_decoded(c, reg, buffer_id, d, io) ==
    IF d.status = "panic"
    THEN handler_result(c, reg, <<>>, "panic", "bad_index")
    ELSE IF io.cast = "err"
    THEN handler_result(c, reg, <<>>, "err", "cast_err")
    ELSE handler_result(c, reg, <<NotifySemanticTokens(buffer_id, d.tokens)>>,
                        "ok", "none")

\* LspClient::handle_semantic_tokens_full_response
handle_semantic_tokens_full_response(c, reg, response, buffer_id, io) ==
    IF response.payload.kind = "error"
    THEN handler_result(c, reg, <<>>, "err", "server_error")
    ELSE IF response.payload.kind # "tokens"
    THEN handler_result(c, reg, <<>>, "err", "bad_payload")
    ELSE tokens_decoded(c, reg, buffer_id,
             decode_tokens(response.payload.data, c.semantic_token_types),
             io)

\* handle_response once the ongoing request `method` was taken out of the
\* map
handle_response_of(c, reg, response, method, io) ==
    IF method.tag = "Initialize"
    THEN handle_initialize_response(c, reg, response, io)
    ELSE handle_semantic_tokens_full_response(c, reg, response,
                                              method.buffer_id, io)

\* A handle_response that passes over a response it cannot correlate
handle_response_skips_unknown(c, reg, response, io) ==
    IF response.id = NoneOpt
    THEN handler_result(c, reg, <<>>, "ok", "none")
    ELSE IF response.id[1] \notin DOMAIN c.ongoing_requests
    THEN handler_result(c, reg, <<>>, "ok", "none")
    ELSE handle_response_of(
             [c EXCEPT !.ongoing_requests = Remove(@, {response.id[1]})],
             reg, response, c.ongoing_requests[response.id[1]], io)

\* A handle_response that takes the oldest ongoing request for the one
\* answered
handle_response_in_order(c, reg, response, io) ==
    IF response.id = NoneOpt
    THEN handler_result(c, reg, <<>>, "err", "unknown_id")
    ELSE IF response.id[1] \notin DOMAIN c.ongoing_requests
    THEN handler_result(c, reg, <<>>, "err", "unknown_id")
    ELSE handle_response_of(
             [c EXCEPT !.ongoing_requests = Remove(@, {response.id[1]})],
             reg, response,
             c.ongoing_requests[Min(DOMAIN c.ongoing_requests)], io)

\* LspClient::handle_response
handle_response(c, reg, response, io) ==
    IF response.id = NoneOpt
    THEN handler_result(c, reg, <<>>, "err", "unknown_id")
    ELSE IF response.id[1] \notin DOMAIN c.ongoing_requests
    THEN handler_result(c, reg, <<>>, "err", "unknown_id")
    ELSE handle_response_of(
             [c EXCEPT !.ongoing_requests = Remove(@, {response.id[1]})],
             reg, response, c.ongoing_requests[response.id[1]], io)

\* `for response in std::mem::take(&mut self.responses)` (lsp.rs:308-314):
\* dispatch handles the first response, dispatch_rest goes on from its
\* result r.
RECURSIVE dispatch(_, _, _, _, _)
RECURSIVE dispatch_rest(_, _, _, _)
dispatch(c, reg, responses, casts, io) ==
    IF responses = <<>> THEN handler_result(c, reg, casts, "ok", "none")
    ELSE dispatch_rest(handle_response(c, reg, Head(responses), io),
                       Tail(responses), casts, io)

dispatch_rest(r, responses, casts, io) ==
    IF r.outcome # "ok"
    THEN handler_result(r.client, r.registry, casts, r.outcome, r.fault)
    ELSE dispatch(r.client, r.registry, responses, casts \o r.casts, io)

\* The end of handle_event, r being the result of the dispatch
responses_dispatched(r) ==
    IF r.outcome = "ok"
    THEN handler_result(r.client, r.registry, r.casts, "alive", "none")
    ELSE IF r.outcome = "err"
    THEN handler_result(r.client, r.registry, r.casts, "exited", r.fault)
    ELSE r

\* A handle_event that loops over the queued responses and leaves them
\* in the queue
handle_readable_keeps_responses(c, reg, token, io) ==
    IF ~io.readable
    THEN handler_result(c, reg, <<>>, "alive", "none")
    ELSE IF token = c.stdout_token
    THEN CASE io.read_end = "eof" ->
                handler_result(c, reg, <<>>, "panic", "eof")
           [] io.read_end = "io_err" ->
                handler_result(c, reg, <<>>, "exited", "read_err")
           [] io.read_end = "framing_err" ->
                handler_result(c, reg, <<>>, "exited", "framing_err")
           [] OTHER ->
                responses_dispatched(
                    dispatch([c EXCEPT !.responses = @ \o io.frames], reg,
                             c.responses \o io.frames, <<>>, io))
    ELSE IF token = c.stderr_token
    THEN CASE io.read_end = "eof" ->
                handler_result(c, reg, <<>>, "hang", "eof")
           [] io.read_end = "io_err" ->
                handler_result(c, reg, <<>>, "exited", "read_err")
           [] OTHER ->
                handler_result(c, reg, <<>>, "alive", "none")
    ELSE handler_result(c, reg, <<>>, "panic", "unreachable")

\* `if event.is_readable()` of handle_event (lsp.rs:291-315). read_response
\* pushes the responses it parses, io.frames, on self.responses
\* (lsp.rs:519-523); the loop takes the queue, leaving it empty, and
\* handles what it held from the front (lsp.rs:308).
handle_readable(c, reg, token, io) ==
    IF ~io.readable
    THEN handler_result(c, reg, <<>>, "alive", "none")
    ELSE IF token = c.stdout_token
    THEN CASE io.read_end = "eof" ->
                handler_result(c, reg, <<>>, "panic", "eof")
           [] io.read_end = "io_err" ->
                handler_result(c, reg, <<>>, "exited", "read_err")
           [] io.read_end = "framing_err" ->
                handler_result(c, reg, <<>>, "exited", "framing_err")
           [] OTHER ->
                responses_dispatched(
                    dispatch([c EXCEPT !.responses = <<>>], reg,
                             c.responses \o io.frames, <<>>, io))
    ELSE IF token = c.stderr_token
    THEN CASE io.read_end = "eof" ->
                handler_result(c, reg, <<>>, "hang", "eof")
           [] io.read_end = "io_err" ->
                handler_result(c, reg, <<>>, "exited", "read_err")
           [] OTHER ->
                handler_result(c, reg, <<>>, "alive", "none")
    ELSE handler_result(c, reg, <<>>, "panic", "unreachable")

\* `if event.is_writable()` of handle_event (lsp.rs:283-289), f being what
\* flush returned
flushed(f, token, io) ==
    IF ~f.ok
    THEN handler_result(f.client, f.registry, <<>>, "exited", "write_err")
    ELSE handle_readable(f.client, f.registry, token, io)

\* The end of a handle_event that looks at the process after the reading
exited_after_read(c, r) ==
    handler_result(r.client, close_pipes(r.registry, c.name), r.casts,
                   IF r.outcome \in {"panic", "hang"} THEN r.outcome
                   ELSE "exited",
                   r.fault)

\* A handle_event that reads and dispatches before it asks whether the
\* process has exited
client_handle_event_reads_first(c, reg, token, io) ==
    IF io.status = "err"
    THEN handler_result(c, reg, <<>>, "err", "status_err")
    ELSE IF io.status = "exited"
    THEN exited_after_read(c, handle_readable(c, reg, token, io))
    ELSE IF io.writable
    THEN flushed(flush(c, reg, FALSE, io.flush), token, io)
    ELSE handle_readable(c, reg, token, io)

\* LspClient::handle_event for an event with `token`. The outcome is
\* "alive" for Ok(true), "exited" for Ok(false), "err" for Err, "panic",
\* or "hang" for a call that does not return.
client_handle_event(c, reg, token, io) ==
    IF io.status = "err"
    THEN handler_result(c, reg, <<>>, "err", "status_err")
    ELSE IF io.status = "exited"
    THEN handler_result(c, close_pipes(reg, c.name), <<>>, "exited", "none")
    ELSE IF io.writable
    THEN flushed(flush(c, reg, FALSE, io.flush), token, io)
    ELSE handle_readable(c, reg, token, io)

(***************************************************************************)
(* LspClientManager                                                        *)
(*                                                                         *)
(* A manager value is [clients, token_to_client_id, next_token]; a call    *)
(* returns the manager and the registry after it, with what it returned.   *)
(***************************************************************************)
\* Editor::new reserves Token(0) and up for the RPC server (editor.rs:48)
RPC_TOKEN == 0

MaxToken == MinToken + TokenRange

Names == {"a", "b"}

\* A next_token that wraps one step late
fn_next_token_wraps_late(cursor) ==
    [token |-> cursor,
     next_token |-> IF cursor + 1 > MaxToken THEN MinToken ELSE cursor + 1]

\* LspClientManager::next_token: the token handed out and the cursor after
fn_next_token(cursor) ==
    [token |-> cursor,
     next_token |-> IF cursor + 1 = MaxToken THEN MinToken ELSE cursor + 1]

manager_result(cs, map, cursor, reg, spawned, picked, casts, result, fault) ==
    [clients |-> cs, token_to_client_id |-> map, next_token |-> cursor,
     registry |-> reg, spawned |-> spawned, tokens |-> picked,
     casts |-> casts, result |-> result, fault |-> fault]

\* The three tokens a start takes from the cursor, with the cursor after
next_tokens(cursor) ==
    [stdin_token |-> cursor,
     stdout_token |-> fn_next_token(cursor).next_token,
     stderr_token |-> fn_next_token(fn_next_token(cursor).next_token).next_token,
     next_token |-> fn_next_token(fn_next_token(fn_next_token(cursor).next_token).next_token).next_token]

\* `for token in [..] { self.token_to_client_id.insert(token, name) }`
insert_tokens(map, t, name) ==
    Put(Put(Put(map, t.stdin_token, name), t.stdout_token, name),
        t.stderr_token, name)

picked_tokens(t) == <<t.stdin_token, t.stdout_token, t.stderr_token>>

\* start once the tokens t are in the reverse map and LspClient::start has
\* returned s
client_started(m, t, name, s) ==
    IF ~s.ok
    THEN manager_result(m.clients,
                        insert_tokens(m.token_to_client_id, t, name),
                        t.next_token, close_pipes(s.registry, name), TRUE,
                        picked_tokens(t), <<>>, "err_send", "write_err")
    ELSE manager_result(Put(m.clients, name, s.client),
                        insert_tokens(m.token_to_client_id, t, name),
                        t.next_token, s.registry, TRUE, picked_tokens(t),
                        <<>>, "ok", "none")

\* start from the picking of the tokens t on
start_with_tokens(m, reg, name, spawn, w, t) ==
    IF spawn = "fail"
    THEN manager_result(m.clients,
                        insert_tokens(m.token_to_client_id, t, name),
                        t.next_token, reg, FALSE, picked_tokens(t), <<>>,
                        "err_spawn", "none")
    ELSE client_started(m, t, name,
             client_start(name, reg, t.stdin_token, t.stdout_token,
                          t.stderr_token, w))

\* A start that picks its tokens before it checks the name
start_allocates_before_check(m, reg, name, spawn, w) ==
    IF name \in DOMAIN m.clients
    THEN manager_result(m.clients,
                        insert_tokens(m.token_to_client_id,
                                      next_tokens(m.next_token), name),
                        next_tokens(m.next_token).next_token, reg, FALSE,
                        picked_tokens(next_tokens(m.next_token)), <<>>,
                        "err_conflict", "none")
    ELSE start_with_tokens(m, reg, name, spawn, w, next_tokens(m.next_token))

\* LspClientManager::start. The results: "ok", "err_conflict", "err_spawn"
\* (Command::spawn failed), "err_send" (sending initialize failed).
start(m, reg, name, spawn, w) ==
    IF name \in DOMAIN m.clients
    THEN manager_result(m.clients, m.token_to_client_id, m.next_token, reg,
                        FALSE, <<>>, <<>>, "err_conflict", "none")
    ELSE start_with_tokens(m, reg, name, spawn, w, next_tokens(m.next_token))

\* handle_event once the client `id` has handled the event and returned r
event_handled(m, reg, id, token, r) ==
    CASE r.outcome = "alive" ->
           manager_result(Put(m.clients, id, r.client), m.token_to_client_id,
                          m.next_token, r.registry, FALSE, <<token>>,
                          r.casts, "true", r.fault)
      [] r.outcome = "exited" ->
           manager_result(Remove(m.clients, {id}),
                          Remove(m.token_to_client_id,
                                 client_tokens(m.clients[id])),
                          m.next_token, close_pipes(r.registry, id), FALSE,
                          <<token>>, r.casts, "true", r.fault)
      [] OTHER ->
           manager_result(m.clients, m.token_to_client_id, m.next_token, reg,
                          FALSE, <<token>>, r.casts, r.outcome, r.fault)

\* handle_event from the lookup of the client `id` on
route_to(m, reg, id, token, io) ==
    IF id \notin DOMAIN m.clients
    THEN manager_result(m.clients, m.token_to_client_id, m.next_token, reg,
                        FALSE, <<token>>, <<>>, "panic", "no_client")
    ELSE event_handled(m, reg, id, token,
             client_handle_event(m.clients[id], reg, token, io))

\* LspClientManager::handle_event. The results: "true", "false", "err",
\* "panic", "hang".
handle_event(m, reg, token, io) ==
    IF token \notin DOMAIN m.token_to_client_id
    THEN manager_result(m.clients, m.token_to_client_id, m.next_token, reg,
                        FALSE, <<token>>, <<>>, "false", "none")
    ELSE route_to(m, reg, m.token_to_client_id[token], token, io)

manager == [clients |-> clients, token_to_client_id |-> token_to_client_id,
            next_token |-> next_token]

(***************************************************************************)
(* What the poller, the pipes and the server can do                        *)
(***************************************************************************)
\* Response::data of the semanticTokens/full answers: one tuple, of type
\* index 0 or 1
TokenData == {<<0, 0, 7, 0, 0>>, <<0, 0, 7, 1, 0>>}

Payload(kind, legend, d) == [kind |-> kind, legend |-> legend, data |-> d]

\* The payloads a server may answer a request of this kind with: an error,
\* a result of the expected shape, a result of another shape
Payloads(tag) ==
    {Payload("error", <<>>, <<>>), Payload("other", <<>>, <<>>)}
        \cup (IF tag = "Initialize"
              THEN {Payload("capabilities", l, <<>>) : l \in Legends}
              ELSE {Payload("tokens", <<>>, d) : d \in TokenData})

\* The responses a server may write to client c: to a request still
\* ongoing; to an id already answered or never issued, and without a
\* usable id.
Responses(c) ==
    {[id |-> Some(x[1]), payload |-> x[2]] :
        x \in UNION {{<<n, p>> : p \in Payloads(c.ongoing_requests[n].tag)} :
                        n \in DOMAIN c.ongoing_requests}}
    \cup {[id |-> Some(n), payload |-> Payload("other", <<>>, <<>>)] :
            n \in (0..c.next_request_id) \ DOMAIN c.ongoing_requests}
    \cup {[id |-> NoneOpt, payload |-> Payload("other", <<>>, <<>>)]}

QuietIo ==
    [status |-> "running", writable |-> FALSE, readable |-> FALSE,
     flush |-> "all", frames |-> <<>>, read_end |-> "would_block",
     write |-> "all", cast |-> "ok"]

\* Does dispatching `frames` reach a send, a cast?
reaches_send(c, frames) ==
    \E i \in 1..Len(frames) :
        /\ frames[i].id # NoneOpt
        /\ frames[i].id[1] \in DOMAIN c.ongoing_requests
        /\ c.ongoing_requests[frames[i].id[1]].tag = "Initialize"
        /\ frames[i].payload.kind = "capabilities"

reaches_cast(c, frames) ==
    \E i \in 1..Len(frames) :
        /\ frames[i].id # NoneOpt
        /\ frames[i].id[1] \in DOMAIN c.ongoing_requests
        /\ frames[i].payload.kind \in {"capabilities", "tokens"}

\* What an event with these flags can meet in client c. An event that is
\* neither readable nor writable reports a closed or broken pipe.
Ios(c, token, readable, writable) ==
    {[QuietIo EXCEPT !.status = st] : st \in {"exited", "err"}}
    \cup
    {[QuietIo EXCEPT !.readable = readable, !.writable = writable,
                     !.flush = x[1], !.read_end = x[2], !.frames = x[3],
                     !.write = x[4], !.cast = x[5]] :
        x \in {y \in
                 (IF writable /\ c.send_buf_len > 0
                  THEN {"all", "would_block", "err"} ELSE {"all"})
                 \X (IF ~readable THEN {"would_block"}
                     ELSE IF token = c.stdout_token
                     THEN {"would_block", "io_err", "framing_err", "eof"}
                     ELSE IF token = c.stderr_token
                     THEN {"would_block", "io_err", "eof"}
                     ELSE {"would_block"})
                 \X (IF readable /\ token = c.stdout_token
                     THEN SeqsUpTo(Responses(c), MaxFramesPerRead)
                     ELSE {<<>>})
                 \X {"all", "would_block", "err"}
                 \X {"ok", "err"} :
                    /\ (y[2] # "would_block" => y[3] = <<>>)
                    /\ (y[4] # "all" => reaches_send(c, y[3]))
                    /\ (y[5] # "ok" => reaches_cast(c, y[3]))}}

\* The events the poller can report for the pipe `fd` of the registry: its
\* token, with the flags its interest allows. The write end of a pipe is
\* never readable.
Flags(fd) ==
    IF fd[2] = "stdin"
    THEN {<<FALSE, FALSE>>}
         \cup (IF registry[fd].interest = "rw" THEN {<<FALSE, TRUE>>} ELSE {})
    ELSE {<<TRUE, FALSE>>, <<FALSE, FALSE>>}

\* The inputs of handle_event for an event whose token is `token`
RoutedIos(token, readable, writable) ==
    IF /\ token \in DOMAIN token_to_client_id
       /\ token_to_client_id[token] \in DOMAIN clients
    THEN Ios(clients[token_to_client_id[token]], token, readable, writable)
    ELSE {[QuietIo EXCEPT !.readable = readable, !.writable = writable]}

(***************************************************************************)
(* SpecManager: the manager on its own. Its caller starts clients and      *)
(* routes the events the poller reports; the casts go to the editor, which *)
(* is outside this specification. A panic or a hang ends the run.          *)
(***************************************************************************)
ManagerUsable == call.result \notin {"panic", "hang"}

Called(op, name, caller, r) ==
    [op |-> op, name |-> name, caller |-> caller, tokens |-> r.tokens,
     result |-> r.result, fault |-> r.fault]

Routed(token) ==
    IF token \in DOMAIN token_to_client_id
    THEN token_to_client_id[token] ELSE "-"

InitManager ==
    /\ IdleFrame
    /\ IdleDecode
    /\ IdleManager
    /\ IdleEditor
    /\ IdleClient
    /\ IdleUi

MStart(name, spawn, w) ==
    /\ ManagerUsable
    /\ name \notin DOMAIN clients => spawn_count < MaxSpawns
    /\ \E r \in {start(manager, registry, name, spawn, w)} :
           /\ clients' = r.clients
           /\ token_to_client_id' = r.token_to_client_id
           /\ next_token' = r.next_token
           /\ registry' = r.registry
           /\ spawn_count' = IF r.result = "err_conflict" THEN spawn_count
                             ELSE spawn_count + 1
           /\ call' = Called("start", name, NoneOpt, r)
    /\ UNCHANGED <<frame_vars, decode_vars, editor_vars, client_vars, ui_vars>>

MRoute(token, io) ==
    /\ ManagerUsable
    /\ \E r \in {handle_event(manager, registry, token, io)} :
           /\ clients' = r.clients
           /\ token_to_client_id' = r.token_to_client_id
           /\ next_token' = r.next_token
           /\ registry' = r.registry
           /\ call' = Called("handle_event", Routed(token), NoneOpt, r)
    /\ UNCHANGED <<spawn_count, frame_vars, decode_vars, editor_vars,
                   client_vars, ui_vars>>

\* An event of one of the clients' pipes
MHandleEvent ==
    \E fd \in DOMAIN registry : \E fl \in Flags(fd) :
        \E io \in RoutedIos(registry[fd].token, fl[1], fl[2]) :
            MRoute(registry[fd].token, io)

\* An event of the RPC server's socket, which the caller hands to the
\* manager as well
MHandleRpcEvent ==
    MRoute(RPC_TOKEN, [QuietIo EXCEPT !.readable = TRUE])

NextManager ==
    \/ \E name \in Names, spawn \in {"ok", "fail"}, w \in {"all", "err"} :
           /\ (spawn = "fail" => w = "all")
           /\ MStart(name, spawn, w)
    \/ MHandleEvent
    \/ MHandleRpcEvent

SpecManager == InitManager /\ [][NextManager]_vars

(***************************************************************************)
(* The editor                                                              *)
(*                                                                         *)
(* A Buffer is [text_len, lsp_server_name, semantic_tokens, cursor,        *)
(* mark_origin]: the length of its text, the two fields the LSP layer      *)
(* writes, and the two the cursor requests write. Of the requests the      *)
(* editor serves, the model has those that reach the LSP layer or decide   *)
(* the fate of the loop: StartLsp, NotifyLspStarted, NotifySemanticTokens, *)
(* Open and Exit. The files opened are empty; a NotifySemanticTokens for   *)
(* an open buffer comes from a client, one for an unknown buffer from a    *)
(* peer.                                                                   *)
(***************************************************************************)
\* The buffer ids, in the order of the BTreeMap
BufferOrder == <<"f", "h">>

BufferIds == {BufferOrder[i] : i \in 1..Len(BufferOrder)}

\* The id of a buffer that is never opened
UnknownBufferId == "g"

\* Buffer::open_file. A text of text_len > 0 bytes is one line.
NewBuffer(text_len) ==
    [text_len |-> text_len, lsp_server_name |-> NoneOpt,
     semantic_tokens |-> <<>>, cursor |-> [line |-> 0, column |-> 0],
     mark_origin |-> NoneOpt]

StartLsp(id, name, spawn) ==
    Request("StartLsp", Some(id), name, "-", <<>>, spawn, "-", 0)

Open(id, buffer_id, file, text_len) ==
    Request("Open", Some(id), "-", buffer_id, <<>>, "-", file, text_len)

Exit == Request("Exit", NoneOpt, "-", "-", <<>>, "-", "-", 0)

\* The requests an RPC peer may make as its id-th
PeerRequests(id) ==
    {StartLsp(id, name, spawn) : name \in Names, spawn \in {"ok", "fail"}}
    \cup {Open(id, b, file, 0) : b \in BufferIds, file \in {"ok", "err"}}
    \cup {NotifyLspStarted(name) : name \in Names}
    \cup {NotifySemanticTokens(UnknownBufferId, <<>>)}
    \cup {Exit}

\* LspClient::notify_did_open
notify_did_open(c, reg, buffer_id, buffer, w) ==
    send(c, reg, "textDocument/didOpen", NoneOpt, buffer_id,
         buffer.text_len, w)

\* LspClient::request_semantic_tokens_full
request_semantic_tokens_full(c, reg, buffer_id, buffer, w) ==
    send(c, reg, "textDocument/semanticTokens/full",
         Some(TagSemanticTokensFull(buffer_id)), buffer_id, 0, w)

\* The second loop of Editor::handle_notify_lsp_started, from the i-th
\* buffer on; ws are the outcomes of the writes of the two sends.
\* open_buffers sends didOpen, did_open goes on from its result o,
\* tokens_requested from the result r of the semanticTokens/full request.
RECURSIVE open_buffers(_, _, _, _, _, _)
RECURSIVE did_open(_, _, _, _, _, _)
RECURSIVE tokens_requested(_, _, _, _, _, _)
open_buffers(cs, reg, bufs, name, ws, i) ==
    IF i > Len(BufferOrder)
    THEN [clients |-> cs, registry |-> reg, ok |-> TRUE]
    ELSE IF BufferOrder[i] \notin DOMAIN bufs \/ name \notin DOMAIN cs
    THEN open_buffers(cs, reg, bufs, name, ws, i + 1)
    ELSE did_open(cs, bufs, name, ws, i,
             notify_did_open(cs[name], reg, BufferOrder[i],
                             bufs[BufferOrder[i]], ws[1]))

\* A loop that sends didOpen and goes on to the next buffer without the
\* semanticTokens/full request
did_open_without_request(cs, bufs, name, ws, i, o) ==
    IF ~o.ok
    THEN [clients |-> Put(cs, name, o.client), registry |-> o.registry,
          ok |-> FALSE]
    ELSE open_buffers(Put(cs, name, o.client), o.registry, bufs, name, ws,
                      i + 1)

did_open(cs, bufs, name, ws, i, o) ==
    IF ~o.ok
    THEN [clients |-> Put(cs, name, o.client), registry |-> o.registry,
          ok |-> FALSE]
    ELSE tokens_requested(cs, bufs, name, ws, i,
             request_semantic_tokens_full(o.client, o.registry,
                 BufferOrder[i], bufs[BufferOrder[i]], ws[2]))

tokens_requested(cs, bufs, name, ws, i, r) ==
    IF ~r.ok
    THEN [clients |-> Put(cs, name, r.client), registry |-> r.registry,
          ok |-> FALSE]
    ELSE open_buffers(Put(cs, name, r.client), r.registry, bufs, name, ws,
                      i + 1)

\* The first loop of Editor::handle_notify_lsp_started
name_buffers(bufs, name) ==
    [b \in DOMAIN bufs |-> [bufs[b] EXCEPT !.lsp_server_name = Some(name)]]

\* Editor::handle_notify_lsp_started: the clients and the registry after
\* it (the buffers after it are name_buffers(bufs, name))
handle_notify_lsp_started(cs, reg, bufs, name, ws) ==
    open_buffers(cs, reg, name_buffers(bufs, name), name, ws, 1)

\* Editor::reply: a response for the caller; todo!() for an Err
reply(sent, id, result) ==
    IF result = "ok"
    THEN [replies |-> sent \cup {[id |-> id, kind |-> "result"]},
          panicked |-> FALSE]
    ELSE [replies |-> sent, panicked |-> TRUE]

(***************************************************************************)
(* Spec: Editor::run. An iteration is a poll, which hands every ready      *)
(* event to rpc_server and to the manager, then the requests try_recv      *)
(* yields one by one, then the rendering.                                  *)
(***************************************************************************)
Running == loop \in {"poll", "recv"}

Init ==
    /\ IdleFrame
    /\ IdleDecode
    /\ IdleManager
    /\ IdleEditor
    /\ IdleClient
    /\ IdleUi

\* An RPC peer writes a request to the editor's socket.
PeerRequest ==
    /\ loop = "poll"
    /\ request_count < MaxRequests
    /\ \E req \in PeerRequests(request_count) :
           inflight' = Append(inflight, req)
    /\ request_count' = request_count + 1
    /\ UNCHANGED <<loop, exit, rpc_queue, buffers, needs_redraw, replies,
                   current_buffer_id, mgr_vars, frame_vars, decode_vars,
                   client_vars, ui_vars>>

\* poll returns; rpc_server reads what was in flight and the manager gets
\* the event with `token`.
Poll(token, io) ==
    /\ loop = "poll"
    /\ \E r \in {handle_event(manager, registry, token, io)} :
           /\ clients' = r.clients
           /\ token_to_client_id' = r.token_to_client_id
           /\ next_token' = r.next_token
           /\ registry' = r.registry
           /\ call' = Called("handle_event", Routed(token), NoneOpt, r)
           /\ inflight' = r.casts
           /\ loop' = CASE r.result \in {"true", "false"} -> "recv"
                        [] r.result = "err" -> "failed"
                        [] r.result = "panic" -> "panicked"
                        [] r.result = "hang" -> "hung"
    /\ rpc_queue' = rpc_queue \o inflight
    /\ UNCHANGED <<exit, request_count, buffers, needs_redraw, replies,
                   current_buffer_id, spawn_count, frame_vars, decode_vars,
                   client_vars, ui_vars>>

\* The socket of the RPC server is ready
RpcEvent ==
    /\ inflight # <<>>
    /\ Poll(RPC_TOKEN, [QuietIo EXCEPT !.readable = TRUE])

\* A pipe of a client is ready
LspEvent ==
    \E fd \in DOMAIN registry : \E fl \in Flags(fd) :
        \E io \in RoutedIos(registry[fd].token, fl[1], fl[2]) :
            Poll(registry[fd].token, io)

\* try_recv yields a request of this method for handle_request.
TryRecv(method) ==
    /\ loop = "recv"
    /\ rpc_queue # <<>>
    /\ Head(rpc_queue).method = method
    /\ rpc_queue' = Tail(rpc_queue)
    /\ UNCHANGED <<inflight, request_count, frame_vars, decode_vars,
                   client_vars, ui_vars>>

\* Request::StartLsp, the write of `initialize` ending in one of the ways
\* of W
ServeStartLspWith(req, W) ==
    /\ \E w \in W :
       \E r \in {start(manager, registry, req.name, req.spawn, w)} :
       \E sent \in {reply(replies, req.id,
                          IF r.result = "ok" THEN "ok" ELSE "err")} :
           /\ (w = "err" => r.result = "err_send")
           /\ clients' = r.clients
           /\ token_to_client_id' = r.token_to_client_id
           /\ next_token' = r.next_token
           /\ registry' = r.registry
           /\ spawn_count' = IF r.result = "err_conflict" THEN spawn_count
                             ELSE spawn_count + 1
           /\ call' = Called("start", req.name, req.id, r)
           /\ replies' = sent.replies
           /\ loop' = IF sent.panicked THEN "panicked" ELSE loop
    /\ UNCHANGED <<exit, buffers, needs_redraw, current_buffer_id>>

ServeStartLsp(req) == ServeStartLspWith(req, {"all", "err"})

HandleStartLsp == TryRecv("StartLsp") /\ ServeStartLsp(Head(rpc_queue))

\* Request::Open
ServeOpen(req) ==
    /\ \E sent \in {reply(replies, req.id, req.file)} :
           /\ replies' = sent.replies
           /\ loop' = IF sent.panicked THEN "panicked" ELSE loop
    /\ buffers' = IF req.file = "ok"
                  THEN Put(buffers, req.buffer_id, NewBuffer(req.text_len))
                  ELSE buffers
    /\ needs_redraw' = IF req.file = "ok" THEN TRUE ELSE needs_redraw
    /\ current_buffer_id' = IF req.file = "ok" THEN Some(req.buffer_id)
                            ELSE current_buffer_id
    /\ UNCHANGED <<exit, mgr_vars>>

HandleOpen == TryRecv("Open") /\ ServeOpen(Head(rpc_queue))

\* Request::NotifyLspStarted, the writes of a didOpen and of a
\* semanticTokens/full request ending in the ways of W
ServeNotifyLspStartedWith(req, W) ==
    /\ \E ws \in W \X W :
       \E r \in {handle_notify_lsp_started(clients, registry, buffers,
                                           req.name, ws)} :
           /\ ws # <<"all", "all">> =>
                  /\ req.name \in DOMAIN clients
                  /\ buffers # EmptyMap
                  /\ ws[1] = "err" => ws[2] = "all"
           /\ clients' = r.clients
           /\ registry' = r.registry
           /\ buffers' = name_buffers(buffers, req.name)
           /\ call' = [op |-> "notify_lsp_started", name |-> req.name,
                       caller |-> NoneOpt, tokens |-> <<>>,
                       result |-> IF r.ok THEN "ok" ELSE "err",
                       fault |-> IF r.ok THEN "none" ELSE "write_err"]
           /\ loop' = IF r.ok THEN loop ELSE "failed"
    /\ UNCHANGED <<exit, needs_redraw, replies, current_buffer_id,
                   token_to_client_id, next_token, spawn_count>>

ServeNotifyLspStarted(req) ==
    ServeNotifyLspStartedWith(req, {"all", "would_block", "err"})

HandleNotifyLspStarted ==
    TryRecv("NotifyLspStarted") /\ ServeNotifyLspStarted(Head(rpc_queue))

\* A set_semantic_tokens that adds the tokens to those the buffer has
set_semantic_tokens_extends(buffer, ts) ==
    [buffer EXCEPT !.semantic_tokens = @ \o ts]

\* Buffer::set_semantic_tokens
set_semantic_tokens(buffer, ts) == [buffer EXCEPT !.semantic_tokens = ts]

\* Request::NotifySemanticTokens
ServeNotifySemanticTokens(req) ==
    /\ IF req.buffer_id \in DOMAIN buffers
       THEN /\ buffers' = [buffers EXCEPT
                              ![req.buffer_id] =
                                  set_semantic_tokens(@, req.tokens)]
            /\ needs_redraw' = TRUE
            /\ loop' = loop
       ELSE /\ loop' = "failed"
            /\ UNCHANGED <<buffers, needs_redraw>>
    /\ UNCHANGED <<exit, replies, current_buffer_id, mgr_vars>>

HandleNotifySemanticTokens ==
    /\ TryRecv("NotifySemanticTokens")
    /\ ServeNotifySemanticTokens(Head(rpc_queue))

\* Request::Exit
HandleExit ==
    /\ TryRecv("Exit")
    /\ exit' = TRUE
    /\ UNCHANGED <<loop, buffers, needs_redraw, replies, current_buffer_id,
                   mgr_vars>>

\* try_recv yields nothing more: the editor renders if it has to and goes
\* round the loop, or leaves it.
EndIteration ==
    /\ loop = "recv"
    /\ rpc_queue = <<>>
    /\ rendered' = needs_redraw
    /\ needs_redraw' = FALSE
    /\ loop' = IF exit THEN "exited" ELSE "poll"
    /\ UNCHANGED <<exit, inflight, rpc_queue, request_count, buffers,
                   replies, current_buffer_id, mgr_vars, frame_vars,
                   decode_vars, client_vars, binding_system>>

Next ==
    \/ PeerRequest
    \/ RpcEvent
    \/ LspEvent
    \/ HandleStartLsp
    \/ HandleOpen
    \/ HandleNotifyLspStarted
    \/ HandleNotifySemanticTokens
    \/ HandleExit
    \/ EndIteration

Spec == Init /\ [][Next]_vars

(***************************************************************************)
(* SpecNotify: the editor serving the requests that open buffers, start a  *)
(* client and carry the two notifications of the LSP layer, while the      *)
(* servers stay silent: no pipe of a client becomes ready. The buffers are *)
(* empty or large, and the writes to a client end in every way.            *)
(***************************************************************************)
\* The name of the one client of SpecNotify, SpecClient and SpecSend
ClientName == "a"

\* The tokens of the NotifySemanticTokens requests: one token, of either
\* type of a legend of two
TokenLists ==
    {decode_tokens(d, <<"keyword", "variable">>).tokens : d \in TokenData}

\* The requests an RPC peer may make as its id-th
NotifyRequests(id) ==
    {StartLsp(id, ClientName, "ok")}
    \cup {Open(id, b, "ok", n) : b \in BufferIds, n \in {0, 2 * BigTextLen}}
    \cup {NotifyLspStarted(name) : name \in Names}
    \cup {NotifySemanticTokens(b, ts) : b \in BufferIds, ts \in TokenLists}

\* An RPC peer writes a request to the editor's socket.
NPeerRequest ==
    /\ loop = "poll"
    /\ inflight = <<>>
    /\ request_count < MaxNotifyRequests
    /\ \E req \in NotifyRequests(request_count) :
           inflight' = Append(inflight, req)
    /\ request_count' = request_count + 1
    /\ UNCHANGED <<loop, exit, rpc_queue, buffers, needs_redraw, replies,
                   current_buffer_id, mgr_vars, frame_vars, decode_vars,
                   client_vars, ui_vars>>

NextNotify ==
    \/ NPeerRequest
    \/ RpcEvent
    \/ HandleStartLsp
    \/ HandleOpen
    \/ HandleNotifyLspStarted
    \/ HandleNotifySemanticTokens
    \/ EndIteration

SpecNotify == Init /\ [][NextNotify]_vars

(***************************************************************************)
(* SpecRender: the editor serving the requests that open a buffer, move    *)
(* its cursor, set and clear its mark and store tokens, with no client     *)
(* started. The terminal has more rows than a buffer has lines, so         *)
(* start_line stays 0; the writes of render to the terminal succeed.       *)
(***************************************************************************)
\* The rows and the columns a MoveTo asks for
Rows == {NoneOpt, Some(1)}

Columns == {NoneOpt, Some(1), Some(5)}

\* The length of the text of the files opened in SpecRender
ShortTextLen == 3

MoveTo(id, row, col) ==
    [method |-> "MoveTo", id |-> id, row |-> row, col |-> col]

Mark == [method |-> "Mark", id |-> NoneOpt]

Cancel == [method |-> "Cancel", id |-> NoneOpt]

\* Buffer::set_cursor. The line is lines.len().min(row), the column the
\* length of that line (0 past the last line) or col, whichever is less.
set_cursor(buffer, row, col) ==
    LET lines_len == IF buffer.text_len = 0 THEN 0 ELSE 1
        line == IF row = NoneOpt THEN buffer.cursor.line
                ELSE IF lines_len < row[1] THEN lines_len ELSE row[1]
        line_len == IF line < lines_len THEN buffer.text_len ELSE 0
    IN  [buffer EXCEPT !.cursor =
            [line |-> line,
             column |-> IF col = NoneOpt THEN buffer.cursor.column
                        ELSE IF line_len < col[1] THEN line_len
                        ELSE col[1]]]

\* Buffer::mark
mark(buffer) == [buffer EXCEPT !.mark_origin = Some(buffer.cursor)]

\* Editor::current_buffer_mut
has_current_buffer ==
    /\ current_buffer_id # NoneOpt
    /\ current_buffer_id[1] \in DOMAIN buffers

\* The requests an RPC peer may make as its id-th
RenderRequests(id) ==
    {Open(id, b, "ok", n) : b \in BufferIds, n \in {0, ShortTextLen}}
    \cup {MoveTo(i, row, col) : i \in {NoneOpt, Some(id)},
                                row \in Rows, col \in Columns}
    \cup {Mark, Cancel, Exit}
    \cup {NotifySemanticTokens(b, ts) : b \in BufferIds, ts \in TokenLists}

\* An RPC peer writes a request to the editor's socket.
RPeerRequest ==
    /\ loop = "poll"
    /\ request_count < MaxRenderRequests
    /\ \E req \in RenderRequests(request_count) :
           inflight' = Append(inflight, req)
    /\ request_count' = request_count + 1
    /\ UNCHANGED <<loop, exit, rpc_queue, buffers, needs_redraw, replies,
                   current_buffer_id, mgr_vars, frame_vars, decode_vars,
                   client_vars, ui_vars>>

\* Request::MoveTo and Editor::handle_move_to
ServeMoveTo(req) ==
    /\ IF has_current_buffer
       THEN /\ buffers' = [buffers EXCEPT
                              ![current_buffer_id[1]] =
                                  set_cursor(@, req.row, req.col)]
            /\ needs_redraw' = TRUE
       ELSE UNCHANGED <<buffers, needs_redraw>>
    /\ replies' = IF req.id = NoneOpt THEN replies
                  ELSE reply(replies, req.id, "ok").replies
    /\ UNCHANGED <<loop, exit, current_buffer_id, mgr_vars>>

HandleMoveTo == TryRecv("MoveTo") /\ ServeMoveTo(Head(rpc_queue))

\* Request::Mark and Editor::handle_mark
HandleMark ==
    /\ TryRecv("Mark")
    /\ IF has_current_buffer
       THEN /\ buffers' = [buffers EXCEPT
                              ![current_buffer_id[1]] = mark(@)]
            /\ loop' = loop
       ELSE /\ loop' = "failed"
            /\ buffers' = buffers
    /\ UNCHANGED <<exit, needs_redraw, replies, current_buffer_id, mgr_vars>>

\* Request::Cancel and Editor::handle_cancel
HandleCancel ==
    /\ TryRecv("Cancel")
    /\ buffers' = IF has_current_buffer
                  THEN [buffers EXCEPT
                           ![current_buffer_id[1]].mark_origin = NoneOpt]
                  ELSE buffers
    /\ UNCHANGED <<loop, exit, needs_redraw, replies, current_buffer_id,
                   mgr_vars>>

NextRender ==
    \/ RPeerRequest
    \/ RpcEvent
    \/ HandleOpen
    \/ HandleMoveTo
    \/ HandleMark
    \/ HandleCancel
    \/ HandleNotifySemanticTokens
    \/ HandleExit
    \/ EndIteration

SpecRender == Init /\ [][NextRender]_vars

(***************************************************************************)
(* SpecFlow: one buffer is opened, one client is started, and its server   *)
(* does its part: it reads what the client writes, sooner or later, and    *)
(* answers each request it has read, initialize with a legend of one type  *)
(* and semanticTokens/full with one tuple. No call of the operating system *)
(* fails. The poller reports every event that stays ready.                 *)
(***************************************************************************)
FlowLegend == <<"comment">>

FlowData == <<0, 0, 7, 0, 0>>

\* How a write to the pipe of a server that is reading can end
FlowWriteEnds == {"all", "would_block", "partial"}

\* The two requests of the RPC peer, in their order
FPeerRequest ==
    /\ loop = "poll"
    /\ request_count < 2
    /\ \E req \in IF request_count = 0
                  THEN {Open(0, b, "ok", n) :
                            b \in BufferIds, n \in {0, ShortTextLen}}
                  ELSE {StartLsp(1, name, "ok") : name \in Names} :
           inflight' = Append(inflight, req)
    /\ request_count' = request_count + 1
    /\ UNCHANGED <<loop, exit, rpc_queue, buffers, needs_redraw, replies,
                   current_buffer_id, mgr_vars, frame_vars, decode_vars,
                   client_vars, ui_vars>>

\* The answer of the server to the request with this tag
FlowAnswer(id, tag) ==
    [id |-> Some(id),
     payload |-> IF tag = "Initialize"
                 THEN Payload("capabilities", FlowLegend, <<>>)
                 ELSE Payload("tokens", <<>>, FlowData)]

\* stdout of a client is readable: the server has read a request, all that
\* the client had to write being written, and has answered it.
FAnswer ==
    \E name \in DOMAIN clients :
    \E id \in DOMAIN clients[name].ongoing_requests :
    \E w \in FlowWriteEnds :
        /\ clients[name].send_buf_len = 0
        /\ Poll(clients[name].stdout_token,
                [QuietIo EXCEPT
                    !.readable = TRUE,
                    !.frames = <<FlowAnswer(id,
                                   clients[name].ongoing_requests[id].tag)>>,
                    !.write = w])

\* stdin of a client is writable and takes a part of what is left
FWritable ==
    \E name \in DOMAIN clients :
        /\ registry[<<name, "stdin">>].interest = "rw"
        /\ clients[name].send_buf_len > 0
        /\ Poll(clients[name].stdin_token,
                [QuietIo EXCEPT !.writable = TRUE, !.flush = "partial"])

\* stdin of a client is writable and takes all that is left
FWritableAll ==
    \E name \in DOMAIN clients :
        /\ registry[<<name, "stdin">>].interest = "rw"
        /\ clients[name].send_buf_len > 0
        /\ Poll(clients[name].stdin_token,
                [QuietIo EXCEPT !.writable = TRUE, !.flush = "all"])

FHandleStartLsp ==
    TryRecv("StartLsp") /\ ServeStartLspWith(Head(rpc_queue), {"all"})

FHandleNotifyLspStarted ==
    /\ TryRecv("NotifyLspStarted")
    /\ ServeNotifyLspStartedWith(Head(rpc_queue), FlowWriteEnds)

NextFlow ==
    \/ FPeerRequest
    \/ RpcEvent
    \/ FAnswer
    \/ FWritable
    \/ FWritableAll
    \/ HandleOpen
    \/ FHandleStartLsp
    \/ FHandleNotifyLspStarted
    \/ HandleNotifySemanticTokens
    \/ EndIteration

\* Every handler returns, so that the dispatch of the requests received in
\* an iteration comes to its end; and an event that is ready at one poll
\* after the other is handled at one of them.
FairFlow ==
    /\ []<>(loop # "recv")
    /\ SF_vars(RpcEvent)
    /\ SF_vars(FAnswer)
    /\ SF_vars(FWritableAll)

SpecFlow == Init /\ [][NextFlow]_vars /\ FairFlow

(***************************************************************************)
(* SpecStream: the manager starts its clients; the server of client "a"    *)
(* then writes a stream of header blocks and bodies to its stdout, which   *)
(* the client reads in chunks cut at any byte. Each read is a readable     *)
(* event of the stdout token, routed by the manager. The variables of      *)
(* SpecFrame hold the receive buffer of client "a".                        *)
(***************************************************************************)
\* The spellings of the header key a server may use
Casings == {"Content-Length", "content-length", "CONTENT-LENGTH"}

KeyBytes(casing) ==
    CASE casing = "Content-Length" -> HeaderKey
      [] casing = "content-length" -> key
      [] casing = "CONTENT-LENGTH" ->
           <<67,79,78,84,69,78,84,45,76,69,78,71,84,72,58>>

\* A notification of the server, {"jsonrpc":"2.0","method":"m"}: JSON that
\* is no ResponseObject
ServerNotification ==
    <<123,34,106,115,111,110,114,112,99,34,58,34,50,46,48,34,44,34,
      109,101,116,104,111,100,34,58,34,109,34,125>>

\* The answer to `initialize`, the request a started client waits for
InitializeResponse ==
    [kind |-> "result", method |-> "-", id |-> Some(0),
     payload |-> "capabilities"]

Frame(casing, body) == [kind |-> "frame", casing |-> casing, body |-> body]

\* Well-formed frames: of a body that is no response, of a response
Frames ==
    {Frame(casing, body) :
        casing \in Casings,
        body \in {ServerNotification, to_vec(InitializeResponse)}}

\* Malformed header blocks: a header line with the byte 0xFF, a length that
\* is no number, a negative length, a block without the length header
BadBlocks ==
    {[kind |-> k] :
        k \in {"bad_utf8", "bad_length", "negative_length", "no_length"}}

\* The bytes of a block; a server puts a space after the colon
BlockBytes(b) ==
    CASE b.kind = "frame" ->
           KeyBytes(b.casing) \o <<32>> \o to_string(Len(b.body))
               \o <<13,10,13,10>> \o b.body
      [] b.kind = "bad_utf8" -> <<88,255,58,49,13,10,13,10>>
      [] b.kind = "bad_length" -> HeaderKey \o <<32,120,13,10,13,10>>
      [] b.kind = "negative_length" -> HeaderKey \o <<32,45,49,13,10,13,10>>
      [] b.kind = "no_length" -> <<88,58,49,13,10,13,10>>

RECURSIVE StreamBytes(_)
StreamBytes(stream) ==
    IF stream = <<>> THEN <<>>
    ELSE BlockBytes(Head(stream)) \o StreamBytes(Tail(stream))

\* One block, or a server notification and one block after it
Streams ==
    {<<b>> : b \in Frames \cup BadBlocks}
    \cup {<<Frame("Content-Length", ServerNotification), b>> :
             b \in Frames \cup BadBlocks}

\* The response handle_event dispatches for a ResponseObject read
as_response(m) ==
    [id |-> m.id,
     payload |-> CASE m.kind = "error" -> Payload("error", <<>>, <<>>)
                   [] m.payload = "capabilities" ->
                        Payload("capabilities", FlowLegend, <<>>)
                   [] OTHER -> Payload("other", <<>>, <<>>)]

\* What the readable event meets when read_response has returned r
StreamIo(r) ==
    [QuietIo EXCEPT
        !.readable = TRUE,
        !.read_end = CASE r.status = "err" -> "framing_err"
                       [] r.status = "panic" -> "eof"
                       [] OTHER -> "would_block",
        !.frames = IF r.status = "ok"
                   THEN [i \in 1..Len(r.responses) |->
                            as_response(r.responses[i])]
                   ELSE <<>>]

InitStream ==
    /\ msg \in Streams
    /\ pending = StreamBytes(msg)
    /\ recv_buf = <<>>
    /\ recv_buf_offset = 0
    /\ recv_buf_len = RECV_BUF_SIZE
    /\ parsed = <<>>
    /\ pieces = 0
    /\ read_status = "ok"
    /\ IdleDecode
    /\ IdleManager
    /\ IdleEditor
    /\ IdleClient
    /\ IdleUi

\* LspClientManager::start before the server has written anything
SStart(name) ==
    /\ pieces = 0
    /\ name \notin DOMAIN clients
    /\ MStart(name, "ok", "all")

\* The server's next k bytes are in the pipe: the stdout token of client
\* "a" is readable, read_response reads until WouldBlock and handle_event
\* dispatches what was parsed. The stream comes in MaxPieces reads at most.
SDeliver(k) ==
    /\ ManagerUsable
    /\ "a" \in DOMAIN clients
    /\ k \in 1..Len(pending)
    /\ pieces + 1 < MaxPieces \/ k = Len(pending)
    /\ \E r \in {read_response(SubSeq(pending, 1, k), recv_buf,
                                recv_buf_offset, recv_buf_len, <<>>)} :
           /\ recv_buf' = r.recv_buf
           /\ recv_buf_offset' = r.recv_buf_offset
           /\ recv_buf_len' = r.recv_buf_len
           /\ parsed' = parsed \o r.responses
           /\ read_status' = r.status
           /\ \E h \in {handle_event(manager, registry,
                                     clients["a"].stdout_token,
                                     StreamIo(r))} :
                  /\ clients' = h.clients
                  /\ token_to_client_id' = h.token_to_client_id
                  /\ next_token' = h.next_token
                  /\ registry' = h.registry
                  /\ call' = Called("handle_event", "a", NoneOpt, h)
    /\ pending' = SliceFrom(pending, k)
    /\ pieces' = pieces + 1
    /\ msg' = msg
    /\ UNCHANGED <<spawn_count, decode_vars, editor_vars, client_vars,
                   ui_vars>>

NextStream ==
    \/ \E name \in Names : SStart(name)
    \/ \E k \in 1..Len(pending) : SDeliver(k)

SpecStream == InitStream /\ [][NextStream]_vars

(***************************************************************************)
(* SpecBinding: an ActionBindingSystem (src/src/action.rs) is loaded from  *)
(* a configuration and its caller makes any sequence of calls on it.       *)
(*                                                                         *)
(* A configuration is [setup_context, bindings]: the name under            *)
(* setup.context and, for every key of the "bindings" object, the list of  *)
(* its bindings. A binding is [trigger, context]: the input it matches and *)
(* the context it switches to, if any. The system is [context, bindings,   *)
(* last_input, last_binding, result], result being the last call, its      *)
(* argument and what it returned.                                          *)
(***************************************************************************)
ContextNames == {"main", "sub", "ghost"}

TerminalInputs == {"x", "y"}

\* The bindings a configuration may list
RawBindings ==
    [trigger : TerminalInputs,
     context : {NoneOpt} \cup {Some(c) : c \in ContextNames}]

\* The configurations: one or two contexts, each with no or one binding
RawConfigs ==
    UNION {[setup_context : ContextNames,
            bindings : [keys -> {<<>>} \cup {<<b>> : b \in RawBindings}]] :
               keys \in {{"main"}, {"main", "sub"}}}

Returned(op, arg, value) == [op |-> op, arg |-> arg, value |-> value]

\* ContextName::try_from: the name must be a key of the "bindings" object
\* of the root value
context_name_try_from(name, root) ==
    IF name \in DOMAIN root.bindings THEN Some(name) ELSE NoneOpt

\* Binding::try_from: the optional "context" member goes through
\* ContextName::try_from
binding_try_from(b, root) ==
    IF b.context = NoneOpt THEN Some(b)
    ELSE IF context_name_try_from(b.context[1], root) = NoneOpt THEN NoneOpt
    ELSE Some(b)

\* ContextualBindings::try_from: a map from every key of the "bindings"
\* object to its bindings, in their order
contextual_bindings_try_from(root) ==
    IF \E k \in DOMAIN root.bindings : \E i \in 1..Len(root.bindings[k]) :
           binding_try_from(root.bindings[k][i], root) = NoneOpt
    THEN NoneOpt
    ELSE Some(root.bindings)

\* ActionBindingSystem::try_from, called by load_from_str
load_from_str(root) ==
    LET context == context_name_try_from(root.setup_context, root)
        contextual_bindings == contextual_bindings_try_from(root)
    IN  IF context = NoneOpt \/ contextual_bindings = NoneOpt
        THEN [NoSystem EXCEPT !.result = Returned("load", "-", "err")]
        ELSE [context |-> context[1], bindings |-> contextual_bindings[1],
              last_input |-> NoneOpt, last_binding |-> NoneOpt,
              result |-> Returned("load", "-", "ok")]

\* Binding::matches
matches(b, input) == b.trigger = input

\* ActionBindingSystem::handle_input
handle_input(s, input) ==
    LET found == IF s.context \notin DOMAIN s.bindings THEN {}
                 ELSE {i \in 1..Len(s.bindings[s.context]) :
                          matches(s.bindings[s.context][i], input)}
    IN  IF found = {}
        THEN [s EXCEPT !.last_input = Some(input), !.last_binding = NoneOpt,
                       !.result = Returned("handle_input", input, "none")]
        ELSE [s EXCEPT !.last_input = Some(input),
                       !.last_binding = Some(s.bindings[s.context][Min(found)]),
                       !.result = Returned("handle_input", input, "some")]

\* ActionBindingSystem::apply_last_context_switch
apply_last_context_switch(s) ==
    IF s.last_binding # NoneOpt /\ s.last_binding[1].context # NoneOpt
    THEN [s EXCEPT !.context = s.last_binding[1].context[1],
                   !.result = Returned("apply_last_context_switch", "-",
                                       "true")]
    ELSE [s EXCEPT !.result = Returned("apply_last_context_switch", "-",
                                       "false")]

\* A set_current_context that does not look the context up
set_current_context_unchecked(s, context) ==
    [s EXCEPT !.context = context,
              !.result = Returned("set_current_context", context, "true")]

\* ActionBindingSystem::set_current_context
set_current_context(s, context) ==
    IF context \in DOMAIN s.bindings
    THEN [s EXCEPT !.context = context,
                   !.result = Returned("set_current_context", context, "true")]
    ELSE [s EXCEPT !.result = Returned("set_current_context", context,
                                       "false")]

\* ActionBindingSystem::current_bindings: indexing the map with a context
\* it does not hold panics
current_bindings(s) ==
    [s EXCEPT !.result =
        Returned("current_bindings", "-",
                 IF s.context \in DOMAIN s.bindings THEN "ok" ELSE "panic")]

Loaded == binding_system.context # "-"

\* Nothing else than the binding system moves
OnlyBindingSystem ==
    UNCHANGED <<frame_vars, decode_vars, mgr_vars, editor_vars, client_vars,
                rendered>>

LoadFromStr ==
    /\ binding_system = NoSystem
    /\ \E root \in RawConfigs : binding_system' = load_from_str(root)
    /\ OnlyBindingSystem

HandleInput ==
    /\ Loaded
    /\ \E input \in TerminalInputs :
           binding_system' = handle_input(binding_system, input)
    /\ OnlyBindingSystem

ApplyLastContextSwitch ==
    /\ Loaded
    /\ binding_system' = apply_last_context_switch(binding_system)
    /\ OnlyBindingSystem

SetCurrentContext ==
    /\ Loaded
    /\ \E context \in ContextNames :
           binding_system' = set_current_context(binding_system, context)
    /\ OnlyBindingSystem

CurrentBindings ==
    /\ Loaded
    /\ binding_system.result.value # "panic"
    /\ binding_system' = current_bindings(binding_system)
    /\ OnlyBindingSystem

NextBinding ==
    \/ LoadFromStr
    \/ HandleInput
    \/ ApplyLastContextSwitch
    \/ SetCurrentContext
    \/ CurrentBindings

SpecBinding == InitManager /\ [][NextBinding]_vars

(***************************************************************************)
(* SpecClient and SpecSend: one client under its manager, from its start   *)
(* to its end. `sends`, `emitted` and `event` keep what was sent, what was *)
(* cast and what the last event met.                                       *)
(*                                                                         *)
(* In SpecClient the editor requests the semantic tokens of two buffers    *)
(* and opens a large one while stdin is blocked, and the poller reports    *)
(* the events of the three pipes, with the answers of the server.          *)
(*                                                                         *)
(* In SpecSend the editor sends didOpen notifications and                  *)
(* semanticTokens/full requests of empty or of large text, with every way  *)
(* the writes can end, and the poller reports stdin writable.              *)
(***************************************************************************)
ClientBuffers == {"f", "g"}

TextLens == {0, BigTextLen}

WriteEnds == {"all", "would_block", "partial", "err"}

ClientUsable == call.result \notin {"err", "err_send", "panic", "hang"}

\* The message LspClient::send builds for these arguments (lsp.rs:213-225)
request_of(c, method, ongoing, buffer_id) ==
    [method |-> method,
     id |-> IF ongoing = NoneOpt THEN NoneOpt ELSE Some(c.next_request_id),
     buffer_id |-> buffer_id]

\* What `sends` keeps of a call of send on client c that left the client
\* as `after`
SendRecord(c, method, ongoing, buffer_id, text_len, after) ==
    [method |-> method,
     buffer_id |-> buffer_id,
     len |-> frame_len(content_len(request_of(c, method, ongoing, buffer_id),
                                   text_len)),
     send_buf_len |-> c.send_buf_len,
     accepted |-> Len(after.outbox) = Len(c.outbox) + 1]

InitClient ==
    /\ IdleFrame
    /\ IdleDecode
    /\ IdleManager
    /\ IdleEditor
    /\ IdleClient
    /\ IdleUi

\* LspClientManager::start for the client
CStart(w) ==
    /\ spawn_count = 0
    /\ \E r \in {start(manager, registry, ClientName, "ok", w)} :
           /\ clients' = r.clients
           /\ token_to_client_id' = r.token_to_client_id
           /\ next_token' = r.next_token
           /\ registry' = r.registry
           /\ call' = Called("start", ClientName, NoneOpt, r)
    /\ spawn_count' = 1
    /\ UNCHANGED <<frame_vars, decode_vars, editor_vars, client_vars, ui_vars>>

\* The editor's call of a sending method that returned s
CSent(op, method, ongoing, buffer_id, text_len, s) ==
    /\ clients' = Put(clients, ClientName, s.client)
    /\ registry' = s.registry
    /\ call' = [op |-> op, name |-> ClientName, caller |-> NoneOpt,
                tokens |-> <<>>, result |-> IF s.ok THEN "ok" ELSE "err",
                fault |-> IF s.ok THEN "none" ELSE "write_err"]
    /\ sends' = Append(sends,
                       SendRecord(clients[ClientName], method, ongoing,
                                  buffer_id, text_len, s.client))
    /\ UNCHANGED <<token_to_client_id, next_token, spawn_count, emitted,
                   event, frame_vars, decode_vars, editor_vars, ui_vars>>

\* LspClient::notify_did_open for a buffer of this id and text
CNotifyDidOpen(buffer_id, text_len, w) ==
    /\ ClientUsable
    /\ ClientName \in DOMAIN clients
    /\ Len(sends) < MaxSends
    /\ CSent("notify_did_open", "textDocument/didOpen", NoneOpt, buffer_id,
             text_len,
             notify_did_open(clients[ClientName], registry, buffer_id,
                             NewBuffer(text_len), w))

\* LspClient::request_semantic_tokens_full for a buffer of this id
CRequestSemanticTokensFull(buffer_id, w) ==
    /\ ClientUsable
    /\ ClientName \in DOMAIN clients
    /\ Len(sends) < MaxSends
    /\ CSent("request_semantic_tokens_full",
             "textDocument/semanticTokens/full",
             Some(TagSemanticTokensFull(buffer_id)), buffer_id, 0,
             request_semantic_tokens_full(clients[ClientName], registry,
                                          buffer_id, NewBuffer(0), w))

\* LspClientManager::handle_event for an event of one of the client's pipes
CRoute(token, io) ==
    /\ ClientUsable
    /\ \E r \in {handle_event(manager, registry, token, io)} :
           /\ clients' = r.clients
           /\ token_to_client_id' = r.token_to_client_id
           /\ next_token' = r.next_token
           /\ registry' = r.registry
           /\ call' = Called("handle_event", Routed(token), NoneOpt, r)
           /\ emitted' = emitted \o r.casts
    /\ event' = Some([token |-> token, status |-> io.status,
                      frames |-> io.frames])
    /\ UNCHANGED <<spawn_count, sends, frame_vars, decode_vars, editor_vars,
                   ui_vars>>

CHandleEvent ==
    \E fd \in DOMAIN registry : \E fl \in Flags(fd) :
        \E io \in RoutedIos(registry[fd].token, fl[1], fl[2]) :
            CRoute(registry[fd].token, io)

\* The same events, reported when the process has exited
CHandleEventOfExited ==
    \E fd \in DOMAIN registry : \E fl \in Flags(fd) :
        \E io \in RoutedIos(registry[fd].token, fl[1], fl[2]) :
            CRoute(registry[fd].token, [io EXCEPT !.status = "exited"])

NextClient ==
    \/ \E w \in {"all", "err"} : CStart(w)
    \/ /\ Len(sends) < MaxClientSends
       /\ CNotifyDidOpen("f", 2 * BigTextLen, "would_block")
    \/ /\ Len(sends) < MaxClientSends
       /\ \E b \in ClientBuffers : CRequestSemanticTokensFull(b, "all")
    \/ CHandleEvent
    \/ CHandleEventOfExited

SpecClient == InitClient /\ [][NextClient]_vars

\* stdin is writable: the flush of handle_event, ending as w says
SFlush(w) ==
    /\ ClientName \in DOMAIN clients
    /\ registry[<<ClientName, "stdin">>].interest = "rw"
    /\ clients[ClientName].send_buf_len > 0 \/ w = "all"
    /\ CRoute(clients[ClientName].stdin_token,
              [QuietIo EXCEPT !.writable = TRUE, !.flush = w])

NextSend ==
    \/ CStart("all")
    \/ \E n \in TextLens, w \in WriteEnds : CNotifyDidOpen("f", n, w)
    \/ \E w \in WriteEnds : CRequestSemanticTokensFull("f", w)
    \/ \E w \in WriteEnds : SFlush(w)

SpecSend == InitClient /\ [][NextSend]_vars

\* The same with the pipe becoming writable in the end: a writable event of
\* stdin whose writes take everything is not for ever ready and never
\* delivered
FairSend == WF_vars(SFlush("all"))

SpecSendFair == InitClient /\ [][NextSend]_vars /\ FairSend

(***************************************************************************)
(* SpecDispatch: one client, to which the editor sends requests for the    *)
(* tokens of two buffers and whose server answers, up to MaxQueued         *)
(* responses arriving in one read of stdout, in any order, with results or *)
(* errors, for ids that are ongoing or not.                                *)
(***************************************************************************)
\* The responses the server may write to client c
DispatchResponses(c) ==
    {[id |-> Some(n),
      payload |-> IF c.ongoing_requests[n].tag = "Initialize"
                  THEN Payload("capabilities", FlowLegend, <<>>)
                  ELSE Payload("tokens", <<>>, FlowData)] :
        n \in DOMAIN c.ongoing_requests}
    \cup {[id |-> Some(n), payload |-> Payload("error", <<>>, <<>>)] :
            n \in 0..(c.next_request_id - 1)}

\* A readable event of stdout whose reads gave these responses and then
\* would block
DRead(frames) ==
    /\ ClientName \in DOMAIN clients
    /\ CRoute(clients[ClientName].stdout_token,
              [QuietIo EXCEPT !.readable = TRUE, !.frames = frames])

DReadable ==
    /\ ClientName \in DOMAIN clients
    /\ \E frames \in SeqsUpTo(DispatchResponses(clients[ClientName]),
                              MaxQueued) :
           DRead(frames)

\* A readable event of stderr
DStderr ==
    /\ ClientName \in DOMAIN clients
    /\ CRoute(clients[ClientName].stderr_token,
              [QuietIo EXCEPT !.readable = TRUE])

NextDispatch ==
    \/ CStart("all")
    \/ \E b \in ClientBuffers : CRequestSemanticTokensFull(b, "all")
    \/ DReadable
    \/ DStderr

SpecDispatch == InitClient /\ [][NextDispatch]_vars

(***************************************************************************)
(* Claims on the manager                                                   *)
(***************************************************************************)
\* The tokens the reverse map `map` gives to name
tokens_of(map, name) == {t \in DOMAIN map : map[t] = name}

\* C5: after any sequence of starts and routed events, every token of the
\* reverse map names a client of the client map, and every client of the
\* client map has exactly its three tokens in the reverse map under its own
\* name.
C5_ReverseMapMatchesClients ==
    /\ \A t \in DOMAIN token_to_client_id :
           token_to_client_id[t] \in DOMAIN clients
    /\ \A name \in DOMAIN clients :
           /\ Cardinality(client_tokens(clients[name])) = 3
           /\ tokens_of(token_to_client_id, name) = client_tokens(clients[name])

\* C6: when spawning the server fails, start returns an error and leaves no
\* partial registration: no token picked for that start is in the reverse
\* map and no client has that name.
C6_SpawnFailureLeavesNothing ==
    (call.op = "start" /\ call.result = "err_spawn") =>
        /\ \A i \in 1..Len(call.tokens) :
               call.tokens[i] \notin DOMAIN token_to_client_id
        /\ call.name \notin DOMAIN clients

\* C8: a start for a name that has a live client returns the name-conflict
\* error and changes nothing: client map, reverse map, token cursor and the
\* poller's registrations are as before and no spawn is made.
C8_NameConflictChangesNothing ==
    [][(call'.op = "start" /\ call'.name \in DOMAIN clients) =>
           /\ call'.result = "err_conflict"
           /\ clients' = clients
           /\ token_to_client_id' = token_to_client_id
           /\ next_token' = next_token
           /\ registry' = registry
           /\ spawn_count' = spawn_count]_vars

\* A start met a live client of its name, while another start had moved the
\* cursor and filled the maps before
C8_Witness ==
    /\ call.op = "start"
    /\ call.result = "err_conflict"
    /\ call.name \in DOMAIN clients
    /\ next_token # MinToken
    /\ spawn_count > 0

\* C9: the token triples of any two clients alive together are disjoint.
C9_LiveTriplesDisjoint ==
    \A x \in DOMAIN clients, y \in DOMAIN clients :
        x # y => client_tokens(clients[x]) \cap client_tokens(clients[y]) = {}

\* C10: routing an event changes only the client that owns the event's
\* token: every other client and its reverse-map entries are as before; an
\* event whose token is not in the reverse map returns false and changes
\* nothing; the call returns true exactly when the token was in the map.
C10_RoutingTouchesOnlyOwner ==
    [][call'.op = "handle_event" =>
           LET token == call'.tokens[1]
               present == token \in DOMAIN token_to_client_id
           IN  /\ (call'.result = "true") <=> present
               /\ ~present =>
                      /\ call'.result = "false"
                      /\ UNCHANGED <<clients, token_to_client_id, next_token,
                                     registry>>
               /\ present =>
                      \A x \in DOMAIN clients \ {token_to_client_id[token]} :
                          /\ x \in DOMAIN clients'
                          /\ clients'[x] = clients[x]
                          /\ tokens_of(token_to_client_id', x)
                                 = tokens_of(token_to_client_id, x)]_vars

Destroyed == DOMAIN clients \ DOMAIN clients'

\* C28: a step that destroys a client, after its process has exited or
\* after a fatal error, is a handle_event that returns Ok(true) and leaves
\* none of the client's three pipes registered, and no registration at
\* all under one of the three tokens the client had.
C28_DestroyedClientDeregistered ==
    [][\A name \in Destroyed :
           /\ call'.op = "handle_event"
           /\ call'.result = "true"
           /\ \A fd \in DOMAIN registry' : fd[1] # name
           /\ \A fd \in DOMAIN registry' :
                  registry'[fd].token \notin client_tokens(clients[name])]_vars

\* The tokens Editor::new gives the RPC server: Token(0) up to the one
\* before the manager's min_token (editor.rs:48-49, 59-60)
RpcTokens == RPC_TOKEN..(MinToken - 1)

\* The token k places after the cursor in the manager's range
token_after(cursor, k) == MinToken + ((cursor - MinToken + k) % TokenRange)

\* C32: the cursor stays in [min_token, max_token); a start that allocates
\* hands out three tokens of that range, none of them one of the RPC
\* server's, which are the cursor and the two after it with the wrap to
\* min_token, and moves the cursor by 3 modulo the size of the range; a
\* start that meets a name conflict hands out none.
C32_TokensInRange ==
    [][/\ next_token \in MinToken..(MaxToken - 1)
       /\ next_token' \in MinToken..(MaxToken - 1)
       /\ call'.op = "start" =>
              IF call'.result = "err_conflict"
              THEN call'.tokens = <<>> /\ next_token' = next_token
              ELSE /\ Len(call'.tokens) = 3
                   /\ \A i \in 1..3 :
                          /\ call'.tokens[i] \in MinToken..(MaxToken - 1)
                          /\ call'.tokens[i] \notin RpcTokens
                          /\ call'.tokens[i] = token_after(next_token, i - 1)
                   /\ next_token' = token_after(next_token, 3)]_vars

\* A start whose allocation went over the end of the range and began again
\* at min_token
C32_Witness ==
    /\ call.op = "start"
    /\ Len(call.tokens) = 3
    /\ next_token <= call.tokens[1]
    /\ spawn_count >= 2

\* C38: every readable event handed to a live client has the client's
\* stdout or stderr token: handle_event never comes to the `unreachable!()`
\* of a readable event with another token, the stdin token among them.
C38_ReadableOnlyOnOutputs ==
    ~(/\ call.op = "handle_event"
      /\ call.result = "panic"
      /\ call.fault = "unreachable")

(***************************************************************************)
(* Claims on the editor                                                    *)
(***************************************************************************)
\* The failures of one client: of a read, a write or the status check, of
\* the framing, of the correlation, an error response, a payload that does
\* not fit
ClientLocalFaults ==
    {"read_err", "write_err", "status_err", "framing_err", "unknown_id",
     "server_error", "bad_payload", "bad_index"}

LoopBroken == loop \in {"failed", "panicked", "hung"}

\* The step is a poll with the handling of its events: the loop leaves
\* poller.poll only so.
EventsHandled == loop = "poll" /\ loop' # "poll"

\* The step is the serving of a request of this method: from try_recv with
\* this request at the head of the queue the loop does nothing else.
Served(method) ==
    /\ loop = "recv"
    /\ rpc_queue # <<>>
    /\ Head(rpc_queue).method = method

\* C4: a failure of one client, met while its event is handled or while
\* the editor sends it didOpen and semanticTokens/full, ends with that
\* client removed from the manager and every other client as it was, and
\* the event loop neither panics nor returns an error.
C4_ClientFailuresContained ==
    [][(/\ EventsHandled \/ Served("NotifyLspStarted")
        /\ call'.op \in {"handle_event", "notify_lsp_started"}
        /\ call'.fault \in ClientLocalFaults) =>
           /\ loop' \notin {"failed", "panicked", "hung"}
           /\ call'.name \notin DOMAIN clients'
           /\ \A x \in DOMAIN clients \ {call'.name} :
                  x \in DOMAIN clients' /\ clients'[x] = clients[x]]_vars

\* C7: for a StartLsp whose name is live or whose process cannot be
\* spawned the caller gets an error response and the event loop neither
\* panics nor ends.
C7_StartLspFailureReplied ==
    [][(/\ Served("StartLsp")
        /\ call'.op = "start"
        /\ call'.result \in {"err_conflict", "err_spawn"}) =>
           /\ loop' = "recv"
           /\ [id |-> call'.caller, kind |-> "error"] \in replies']_vars

\* The step ends an iteration: try_recv has nothing more to yield.
IterationEnds == loop = "recv" /\ rpc_queue = <<>>

\* C22: the event loop keeps iterating as long as no Exit request has been
\* dispatched; dispatching an Exit sets the exit flag, which is never
\* cleared, and the loop then ends at the end of that iteration without
\* another wait in the poller.
C22_LoopUntilExit ==
    [][/\ ~exit' => loop' \in {"poll", "recv"}
       /\ Served("Exit") => exit'
       /\ exit => exit'
       /\ exit => loop' # "poll"
       /\ exit /\ IterationEnds => loop' = "exited"]_vars

\* C23: an iteration renders at most once, and exactly when needs_redraw
\* is set once its requests are dispatched; needs_redraw is false when the
\* iteration ends; the dispatch of a request that changes a buffer, its
\* cursor or the current buffer leaves needs_redraw set.
C23_RenderWhenChanged ==
    [][/\ IterationEnds => /\ rendered' <=> needs_redraw
                           /\ ~needs_redraw'
       /\ (/\ loop = "recv"
           /\ rpc_queue # <<>>
           /\ \/ buffers' # buffers
              \/ current_buffer_id' # current_buffer_id) => needs_redraw']_vars

\* An RPC peer has made a StartLsp request, a buffer being open or about
\* to be: the Open request comes before it.
StartLspMade ==
    \E i \in 1..Len(inflight) : inflight[i].method = "StartLsp"

\* The methods of the messages a client was given to send, in order
Methods(outbox) == [i \in 1..Len(outbox) |-> outbox[i].method]

\* The end of the scenario for the client `name` and the buffer b
FlowDone(name, b) ==
    /\ Methods(clients[name].outbox) =
           <<"initialize", "initialized", "textDocument/didOpen",
             "textDocument/semanticTokens/full">>
    /\ clients[name].outbox[3].buffer_id = b
    /\ clients[name].outbox[4].buffer_id = b
    /\ clients[name].send_buf_len = 0
    /\ clients[name].ongoing_requests = EmptyMap
    /\ buffers[b].lsp_server_name = Some(name)
    /\ buffers[b].semantic_tokens =
           <<[line |-> 0, column |-> 0, token_len |-> 7,
              token_type |-> "comment"]>>
    /\ needs_redraw

EventRouted == call'.op = "handle_event" /\ event' # NoneOpt

\* The step dispatched the responses of event'.frames: the process was
\* running and the event was readable on stdout.
Dispatched ==
    /\ EventRouted
    /\ event'[1].status = "running"
    /\ event'[1].frames # <<>>
    /\ ClientName \in DOMAIN clients
    /\ event'[1].token = clients[ClientName].stdout_token

\* The request of the outbox of c that went out with the id n
outbox_request(c, n) ==
    CHOOSE m \in {c.outbox[i] : i \in 1..Len(c.outbox)} : m.id = Some(n)

\* C11: a response whose id is not in the ongoing-requests map (absent,
\* never issued or answered before) ends its client alone: the kill path
\* of handle_event is taken, the manager returns Ok(true) having removed
\* the client, its three reverse-map entries and its pipes, and nothing
\* is cast to the editor.
C11_UnknownIdEndsClient ==
    [][(/\ Dispatched
        /\ \/ Head(event'[1].frames).id = NoneOpt
           \/ Head(event'[1].frames).id[1]
                  \notin DOMAIN clients[ClientName].ongoing_requests) =>
           /\ call'.result = "true"
           /\ call'.fault = "unknown_id"
           /\ ClientName \notin DOMAIN clients'
           /\ client_tokens(clients[ClientName])
                  \cap DOMAIN token_to_client_id' = {}
           /\ \A fd \in DOMAIN registry' : fd[1] # ClientName
           /\ emitted' = emitted]_vars

\* An id that was answered before ended the client
C11_Witness ==
    /\ call.op = "handle_event"
    /\ call.fault = "unknown_id"
    /\ event # NoneOpt
    /\ event[1].frames # <<>>
    /\ Head(event[1].frames).id = Some(0)
    /\ NotifyLspStarted(ClientName) \in {emitted[i] : i \in 1..Len(emitted)}
    /\ clients = EmptyMap
    /\ token_to_client_id = EmptyMap

\* C12: when the responses of a read are all handled, the i-th of them
\* that answers a semanticTokens/full request makes the i-th cast of the
\* read a NotifySemanticTokens with the buffer id of the request that
\* went out with its id, and the ongoing entries removed are exactly those
\* of the ids answered.
C12_CorrelationById ==
    [][(/\ Dispatched
        /\ call'.result = "true"
        /\ call'.fault = "none"
        /\ ClientName \in DOMAIN clients') =>
           LET c == clients[ClientName]
               frames == event'[1].frames
           IN  /\ Len(emitted') = Len(emitted) + Len(frames)
               /\ DOMAIN clients'[ClientName].ongoing_requests
                      = DOMAIN c.ongoing_requests
                            \ {frames[i].id[1] : i \in 1..Len(frames)}
               /\ \A i \in 1..Len(frames) :
                      outbox_request(c, frames[i].id[1]).method
                              = "textDocument/semanticTokens/full" =>
                          /\ emitted'[Len(emitted) + i].method
                                 = "NotifySemanticTokens"
                          /\ emitted'[Len(emitted) + i].buffer_id
                                 = outbox_request(c, frames[i].id[1]).buffer_id]_vars

\* The later of two requests, for another buffer, was answered first
C12_Witness ==
    /\ call.op = "handle_event"
    /\ call.fault = "none"
    /\ ClientName \in DOMAIN clients
    /\ event # NoneOpt
    /\ event[1].frames # <<>>
    /\ Head(event[1].frames).id = Some(2)
    /\ 1 \in DOMAIN clients[ClientName].ongoing_requests
    /\ clients[ClientName].ongoing_requests[1].tag = "SemanticTokensFull"
    /\ emitted # <<>>
    /\ emitted[Len(emitted)].method = "NotifySemanticTokens"
    /\ emitted[Len(emitted)].buffer_id
           # clients[ClientName].ongoing_requests[1].buffer_id

\* C16: an event of a client whose process has exited is handled without
\* a read, a write or a dispatch (nothing is cast, no failure is met); the
\* three pipes leave the poller, the manager returns Ok(true) having
\* removed the client and its three reverse-map entries, and nothing
\* panics.
C16_ExitedProcessRemoved ==
    [][(/\ EventRouted
        /\ event'[1].status = "exited"
        /\ ClientName \in DOMAIN clients
        /\ event'[1].token \in client_tokens(clients[ClientName])) =>
           /\ call'.result = "true"
           /\ call'.fault = "none"
           /\ ClientName \notin DOMAIN clients'
           /\ client_tokens(clients[ClientName])
                  \cap DOMAIN token_to_client_id' = {}
           /\ \A fd \in DOMAIN registry' : fd[1] # ClientName
           /\ emitted' = emitted]_vars

\* The process had exited when stdout was readable with an answer to a
\* request still ongoing
C16_Witness ==
    /\ call.op = "handle_event"
    /\ call.result = "true"
    /\ event # NoneOpt
    /\ event[1].status = "exited"
    /\ event[1].frames # <<>>
    /\ Head(event[1].frames).id = Some(0)
    /\ Head(event[1].frames).payload.kind = "capabilities"
    /\ clients = EmptyMap
    /\ token_to_client_id = EmptyMap
    /\ registry = EmptyMap

\* The response f answers the Initialize request of c with capabilities
AnswersInitialize(c, f) ==
    /\ f.id # NoneOpt
    /\ f.id[1] \in DOMAIN c.ongoing_requests
    /\ c.ongoing_requests[f.id[1]].tag = "Initialize"
    /\ f.payload.kind = "capabilities"

\* How many NotifyLspStarted there are among the casts
LspStartedCount(casts) ==
    Cardinality({i \in 1..Len(casts) : casts[i].method = "NotifyLspStarted"})

\* What C17 says of a step; with_room limits what it says of
\* `initialized` to the sends that find send_buf within its limit.
InitializeAnswerHandled(with_room) ==
    /\ (/\ Dispatched
        /\ AnswersInitialize(clients[ClientName], Head(event'[1].frames))
        /\ call'.fault = "none"
        /\ ClientName \in DOMAIN clients') =>
            /\ clients'[ClientName].semantic_token_types
                   = Head(event'[1].frames).payload.legend
            /\ (with_room =>
                    clients[ClientName].send_buf_len <= SEND_BUF_SIZE_LIMIT) =>
                   clients'[ClientName].outbox
                       = Append(clients[ClientName].outbox,
                                [method |-> "initialized", id |-> NoneOpt,
                                 buffer_id |-> "-"])
            /\ emitted'[Len(emitted) + 1] = NotifyLspStarted(ClientName)
    /\ (/\ Dispatched
        /\ AnswersInitialize(clients[ClientName], Head(event'[1].frames))
        /\ call'.fault = "write_err") =>
            /\ emitted' = emitted
            /\ ClientName \notin DOMAIN clients'
    /\ LspStartedCount(emitted') <= 1
    /\ LspStartedCount(emitted') > LspStartedCount(emitted) =>
            /\ Dispatched
            /\ \E i \in 1..Len(event'[1].frames) :
                   AnswersInitialize(clients[ClientName], event'[1].frames[i])

C33_StderrNeverFatal ==
    [][(/\ EventRouted
        /\ event'[1].status = "running"
        /\ ClientName \in DOMAIN clients
        /\ event'[1].token = clients[ClientName].stderr_token) =>
           /\ call'.result = "true"
           /\ ClientName \in DOMAIN clients'
           /\ clients'[ClientName] = clients[ClientName]]_vars

\* The cast that tells the editor of the response f to a request of c
IsCastOf(cast, c, f) ==
    /\ f.id # NoneOpt
    /\ f.id[1] \in DOMAIN c.ongoing_requests
    /\ IF c.ongoing_requests[f.id[1]].tag = "Initialize"
       THEN cast.method = "NotifyLspStarted" /\ cast.name = c.name
       ELSE /\ cast.method = "NotifySemanticTokens"
            /\ cast.buffer_id = c.ongoing_requests[f.id[1]].buffer_id

\* The step has handled the first k of `frames`, each once and in their
\* order: no two of them have one id, their casts were made in that order
\* and nothing else was cast
HandledInOrder(c, frames, k) ==
    /\ \A i, j \in 1..k : i # j => frames[i].id # frames[j].id
    /\ Len(emitted') = Len(emitted) + k
    /\ SubSeq(emitted', 1, Len(emitted)) = emitted
    /\ \A i \in 1..k : IsCastOf(emitted'[Len(emitted) + i], c, frames[i])

\* The handle_event of the step returned Ok(true) to the manager, which
\* keeps the client
ReturnedAlive == call'.result = "true" /\ ClientName \in DOMAIN clients'

\* C34: the responses a read of stdout has parsed are handled in the order
\* of the stream, each once: a handle_event that returns Alive has handled
\* them all and has removed their ongoing entries, one that ends the
\* client has handled those before the one that failed; and whenever
\* handle_event returns Alive the queue of pending responses is empty.
C34_DispatchInOrder ==
    [][/\ (EventRouted /\ ReturnedAlive) =>
              clients'[ClientName].responses = <<>>
       /\ Dispatched =>
              LET c == clients[ClientName]
                  frames == event'[1].frames
              IN  IF ReturnedAlive
                  THEN /\ HandledInOrder(c, frames, Len(frames))
                       /\ DOMAIN clients'[ClientName].ongoing_requests
                              = DOMAIN c.ongoing_requests
                                    \ {frames[i].id[1] :
                                           i \in 1..Len(frames)}
                  ELSE \E k \in 0..(Len(frames) - 1) :
                           HandledInOrder(c, frames, k)]_vars

\* One read gave the answers to two requests for tokens, the later request
\* answered first, and both were handled
C34_Witness ==
    /\ call.op = "handle_event"
    /\ call.result = "true"
    /\ ClientName \in DOMAIN clients
    /\ event # NoneOpt
    /\ Len(event[1].frames) = 2
    /\ event[1].frames[1].id = Some(2)
    /\ event[1].frames[2].id = Some(1)
    /\ Len(emitted) >= 2
    /\ emitted[Len(emitted)].method = "NotifySemanticTokens"
    /\ emitted[Len(emitted) - 1].method = "NotifySemanticTokens"
    /\ emitted[Len(emitted)].buffer_id # emitted[Len(emitted) - 1].buffer_id

HasId(m) == m.id # NoneOpt

\* The ids of the requests send has accepted, in the order of acceptance,
\* are 0, 1, 2, ... up to the counter, and every ongoing entry has one of
\* them
IdsInOrder(c) ==
    LET requests == SelectSeq(c.outbox, HasId)
    IN  /\ \A i \in 1..Len(requests) : requests[i].id = Some(i - 1)
        /\ c.next_request_id = Len(requests)
        /\ \A n \in DOMAIN c.ongoing_requests :
               0 <= n /\ n < c.next_request_id

\* C35: request ids are 0, 1, 2, ... in the order of acceptance and none
\* is used twice; every key of the ongoing map is below the counter; a
\* notification and a message dropped at the limit take no id and add no
\* ongoing entry, an accepted request takes the counter as id and adds
\* its entry; and an entry leaves the map of a client that stays only in
\* a step that handled a response with its id.
C35_RequestIds ==
    [][(ClientName \in DOMAIN clients /\ ClientName \in DOMAIN clients') =>
           LET c == clients[ClientName]
               after == clients'[ClientName]
               gone == DOMAIN c.ongoing_requests
                           \ DOMAIN after.ongoing_requests
           IN  /\ IdsInOrder(c)
               /\ IdsInOrder(after)
               /\ after.next_request_id >= c.next_request_id
               /\ Len(sends') = Len(sends) + 1 =>
                      LET sent == sends'[Len(sends')]
                      IN  IF sent.accepted
                             /\ sent.method
                                    = "textDocument/semanticTokens/full"
                          THEN /\ after.next_request_id
                                      = c.next_request_id + 1
                               /\ DOMAIN after.ongoing_requests
                                      = DOMAIN c.ongoing_requests
                                            \cup {c.next_request_id}
                          ELSE /\ after.next_request_id = c.next_request_id
                               /\ after.ongoing_requests = c.ongoing_requests
               /\ gone # {} =>
                      /\ Dispatched
                      /\ \A n \in gone :
                             \E i \in 1..Len(event'[1].frames) :
                                 event'[1].frames[i].id = Some(n)]_vars

\* A request was dropped at the limit that a notification had passed: the
\* counter is where initialize left it and only initialize is ongoing
C35_Witness ==
    /\ ClientName \in DOMAIN clients
    /\ Len(sends) >= 2
    /\ ~sends[Len(sends)].accepted
    /\ sends[Len(sends)].method = "textDocument/semanticTokens/full"
    /\ clients[ClientName].next_request_id = 1
    /\ DOMAIN clients[ClientName].ongoing_requests = {0}

\* C36: every call of handle_event comes to its end, however the reads
\* of stdout and stderr and the writes to stdin end (data, would-block,
\* end of file, error): none of its loops goes on for ever.
C36_HandleEventReturns ==
    call.op = "handle_event" => call.result # "hang"

(***************************************************************************)
(* Claims on the outbound path                                             *)
(***************************************************************************)
\* The step is a call of notify_did_open or request_semantic_tokens_full
SendCalled == Len(sends') = Len(sends) + 1

\* C13: a send made while send_buf is longer than 10240 bytes discards the
\* message: the client (send_buf, send_buf_offset, next_request_id,
\* ongoing_requests) and the poller's registrations are as before however
\* a write would have ended, and the call returns Ok.
C13_SendOverLimitDrops ==
    [][(/\ SendCalled
        /\ clients[ClientName].send_buf_len > SEND_BUF_SIZE_LIMIT) =>
           /\ clients' = clients
           /\ registry' = registry
           /\ call'.result = "ok"
           /\ ~sends'[Len(sends')].accepted]_vars

\* A semanticTokens/full request was dropped from a client part of whose
\* buffer had been written
C13_Witness ==
    /\ call.op = "request_semantic_tokens_full"
    /\ call.result = "ok"
    /\ sends # <<>>
    /\ ~sends[Len(sends)].accepted
    /\ sends[Len(sends)].send_buf_len > SEND_BUF_SIZE_LIMIT
    /\ ClientName \in DOMAIN clients
    /\ clients[ClientName].send_buf_offset > 0
    /\ clients[ClientName].send_buf_len = sends[Len(sends)].send_buf_len

\* The encoded size of the first i messages sent
RECURSIVE CumulativeLen(_)
CumulativeLen(i) == IF i = 0 THEN 0 ELSE CumulativeLen(i - 1) + sends[i].len

\* The encoded size of the messages accepted before the i-th
RECURSIVE AcceptedLen(_)
AcceptedLen(i) ==
    IF i <= 1 THEN 0
    ELSE AcceptedLen(i - 1)
             + (IF sends[i - 1].accepted THEN sends[i - 1].len ELSE 0)

\* stdin has taken nothing of what was sent: each send found in send_buf
\* all that was accepted before it
NotDrained ==
    /\ ClientName \in DOMAIN clients
    /\ clients[ClientName].send_buf_offset = 0
    /\ \A i \in 1..Len(sends) : sends[i].send_buf_len = AcceptedLen(i)
    /\ clients[ClientName].send_buf_len = AcceptedLen(Len(sends) + 1)

\* C14: of a sequence of messages sent to a client whose stdin does not
\* drain, those accepted are exactly the leading ones whose cumulative
\* encoded size is within the cap of 10240 bytes, and every later one is
\* dropped. (That no send blocks is in the model's send, which returns
\* whatever the write does.)
C14_AcceptedWithinCap ==
    NotDrained =>
        \A i \in 1..Len(sends) :
            sends[i].accepted <=> CumulativeLen(i) <= SEND_BUF_SIZE_LIMIT

\* C15: a client whose send_buf is empty has its stdin registered for
\* reading only: the write-interest of an earlier WouldBlock is gone once
\* flush has written everything.
C15_NoWriteInterestAtRest ==
    (/\ ClientName \in DOMAIN clients
     /\ clients[ClientName].send_buf_len = 0) =>
        registry[<<ClientName, "stdin">>].interest = "r"

\* C30: whatever the sends and the ways their writes and the later flushes
\* end, what stdin has received is a prefix of the frames send has
\* accepted, in their order: every write began where the one before it
\* had ended, the next will begin there, 0 <= send_buf_offset <=
\* send_buf.len(), and buffer and offset are empty exactly when all that
\* was accepted is written.
C30_WrittenIsPrefix ==
    \A name \in DOMAIN clients :
        LET c == clients[name]
        IN  /\ c.in_order
            /\ c.written_to <= c.accepted_len
            /\ c.written_to = stream_position(c)
            /\ 0 <= c.send_buf_offset
            /\ c.send_buf_offset <= c.send_buf_len
            /\ (c.send_buf_len = 0 /\ c.send_buf_offset = 0)
                   <=> c.written_to = c.accepted_len

\* Three frames were accepted; a part of them was written in several
\* writes, a part waits
C30_Witness ==
    /\ ClientName \in DOMAIN clients
    /\ Len(clients[ClientName].outbox) = MaxSends + 1
    /\ clients[ClientName].send_buf_offset > 0
    /\ clients[ClientName].written_to
           > frame_len(content_len(clients[ClientName].outbox[1], 0))
    /\ clients[ClientName].written_to < clients[ClientName].accepted_len
    /\ call.op = "handle_event"

\* Bytes that send has accepted wait in the client's send_buf
Unflushed(name) ==
    /\ name \in DOMAIN clients
    /\ clients[name].send_buf_offset < clients[name].send_buf_len

\* The call that made this state left the client in use: it did not end
\* in an error, a panic or a loop without end
Stranded(name) ==
    /\ ClientUsable
    /\ Unflushed(name)
    /\ registry[<<name, "stdin">>].interest # "rw"

\* C31: whenever a flush has returned Ok with bytes left in send_buf, stdin
\* is registered with write-interest; and, the pipe becoming writable in
\* the end, bytes that wait lead to a state where the client is gone (its
\* process exited or a write failed) or all that send accepted is written.
C31_NothingStranded ==
    /\ [](~Stranded(ClientName))
    /\ Unflushed(ClientName) ~>
           \/ ClientName \notin DOMAIN clients
           \/ ~ClientUsable
           \/ clients[ClientName].written_to
                  = clients[ClientName].accepted_len

\* A send found the pipe full and left its frame in send_buf; the flush of
\* a later writable event has written all that was accepted
C31_Witness ==
    /\ ClientName \in DOMAIN clients
    /\ call.op = "handle_event"
    /\ call.result = "true"
    /\ \E i \in DOMAIN sends : sends[i].accepted
    /\ registry[<<ClientName, "stdin">>].interest = "rw"
    /\ clients[ClientName].send_buf_len = 0
    /\ clients[ClientName].written_to = clients[ClientName].accepted_len

(***************************************************************************)
(* Claims on the two notifications                                         *)
(***************************************************************************)
\* What handle_notify_lsp_started has to send for the open buffers among
\* `bufs`, from the i-th of BufferOrder on, the next request id being id:
\* for each a didOpen and then a semanticTokens/full request
RECURSIVE ExpectedSends(_, _, _)
ExpectedSends(bufs, i, id) ==
    IF i > Len(BufferOrder) THEN <<>>
    ELSE IF BufferOrder[i] \notin DOMAIN bufs
    THEN ExpectedSends(bufs, i + 1, id)
    ELSE <<[method |-> "textDocument/didOpen", id |-> NoneOpt,
            buffer_id |-> BufferOrder[i]],
           [method |-> "textDocument/semanticTokens/full", id |-> Some(id),
            buffer_id |-> BufferOrder[i]]>>
             \o ExpectedSends(bufs, i + 1, id + 1)

IsPrefix(s, t) == Len(s) <= Len(t) /\ s = SubSeq(t, 1, Len(s))

\* What C19 says of the serving of NotifyLspStarted{name} that returns Ok;
\* with_room lets the messages that find send_buf over its limit go
\* unsent.
LspStartedServed(name, with_room) ==
    /\ name \notin DOMAIN clients =>
           /\ clients' = clients
           /\ registry' = registry
           /\ call'.result = "ok"
           /\ loop' = "recv"
    /\ (name \in DOMAIN clients /\ call'.result = "ok") =>
           /\ name \in DOMAIN clients'
           /\ loop' = "recv"
           /\ \A x \in DOMAIN clients \ {name} :
                  x \in DOMAIN clients' /\ clients'[x] = clients[x]
           /\ IsPrefix(clients[name].outbox, clients'[name].outbox)
           /\ IF with_room
                   /\ clients'[name].send_buf_len > SEND_BUF_SIZE_LIMIT
              THEN IsPrefix(clients'[name].outbox,
                            clients[name].outbox
                                \o ExpectedSends(buffers, 1,
                                        clients[name].next_request_id))
              ELSE clients'[name].outbox
                       = clients[name].outbox
                             \o ExpectedSends(buffers, 1,
                                     clients[name].next_request_id)
           /\ \A i \in Len(clients[name].outbox) + 1
                            ..Len(clients'[name].outbox) :
                  clients'[name].outbox[i].id # NoneOpt =>
                      /\ clients'[name].outbox[i].id[1]
                             \in DOMAIN clients'[name].ongoing_requests
                      /\ clients'[name].ongoing_requests[
                                 clients'[name].outbox[i].id[1]]
                             = TagSemanticTokensFull(
                                   clients'[name].outbox[i].buffer_id)

C20_TokensReplaced ==
    [][(/\ Served("NotifySemanticTokens")
        /\ Head(rpc_queue).buffer_id \in DOMAIN buffers) =>
           /\ DOMAIN buffers' = DOMAIN buffers
           /\ buffers'[Head(rpc_queue).buffer_id]
                  = [buffers[Head(rpc_queue).buffer_id]
                        EXCEPT !.semantic_tokens = Head(rpc_queue).tokens]
           /\ \A b \in DOMAIN buffers \ {Head(rpc_queue).buffer_id} :
                  buffers'[b] = buffers[b]
           /\ needs_redraw'
           /\ current_buffer_id' = current_buffer_id
           /\ loop' = "recv"]_vars

\* The tokens of a buffer that is not the current one were replaced by
\* others, the other buffer keeping its own
C20_Witness ==
    /\ DOMAIN buffers = BufferIds
    /\ current_buffer_id = Some("h")
    /\ buffers["f"].semantic_tokens # <<>>
    /\ buffers["h"].semantic_tokens = <<>>
    /\ needs_redraw
    /\ request_count = MaxNotifyRequests
    /\ rpc_queue = <<>>
    /\ loop = "recv"

\* C39: in the stream of the messages a client has accepted for sending,
\* a semanticTokens/full request for a buffer comes only after a didOpen
\* for that buffer (right after it), also when messages were dropped at
\* the limit of send_buf.
C39_RequestAfterDidOpen ==
    \A name \in DOMAIN clients :
        \A i \in 1..Len(clients[name].outbox) :
            clients[name].outbox[i].method
                    = "textDocument/semanticTokens/full" =>
                /\ i > 1
                /\ clients[name].outbox[i - 1].method = "textDocument/didOpen"
                /\ clients[name].outbox[i - 1].buffer_id
                       = clients[name].outbox[i].buffer_id

\* The two messages of one buffer were accepted, the didOpen of the next
\* buffer filled send_buf over its limit and the request after it was
\* dropped
C39_Witness ==
    /\ call.op = "notify_lsp_started"
    /\ call.result = "ok"
    /\ call.name \in DOMAIN clients
    /\ Cardinality(DOMAIN buffers) = 2
    /\ Len(clients[call.name].outbox) = 4
    /\ clients[call.name].outbox[3].method
           = "textDocument/semanticTokens/full"
    /\ clients[call.name].outbox[4].method = "textDocument/didOpen"
    /\ clients[call.name].send_buf_len > SEND_BUF_SIZE_LIMIT

\* The client has handled the response to its initialize request, the
\* request with the id 0
InitializeHandled(c) == 0 \notin DOMAIN c.ongoing_requests

\* C40: a client has accepted a didOpen or a semanticTokens/full request
\* for sending only if it has handled the response to its own initialize
\* request before, whoever made the NotifyLspStarted request that was
\* served and whenever.
C40_SentOnlyWhenInitialized ==
    \A name \in DOMAIN clients :
        (\E i \in 1..Len(clients[name].outbox) :
             clients[name].outbox[i].method
                 \in {"textDocument/didOpen",
                      "textDocument/semanticTokens/full"}) =>
            InitializeHandled(clients[name])

(***************************************************************************)
(* Claims on the inbound stream                                            *)
(***************************************************************************)
\* C37: recv_buf_offset never exceeds the length of recv_buf, and every
\* read of stdout gets a free region recv_buf[recv_buf_offset..] that is
\* not empty, also right after complete frames were drained from a full
\* buffer: no read returns 0 for want of room, which the assertion on the
\* size read would turn into a panic.
C37_FreeRegionNonEmpty ==
    /\ recv_buf_offset <= recv_buf_len
    /\ read_status # "panic"

\* The last block of the stream, which the server has written to its end
LastBlock == msg[Len(msg)]

StreamRead == pending = <<>>

\* C24: a header line that is not UTF-8, a length that is no non-negative
\* integer and a header block without a length, wherever in the stream
\* and however chunked, are fatal to that client and to it alone: once the
\* block was read the client is removed, handle_event of the manager has
\* returned Ok(true) after a framing error, and the other client is there.
C24_FramingErrorsFatal ==
    (StreamRead /\ LastBlock.kind # "frame") =>
        /\ "a" \notin DOMAIN clients
        /\ call.op = "handle_event"
        /\ call.result = "true"
        /\ call.fault = "framing_err"
        /\ spawn_count = Cardinality(Names) => "b" \in DOMAIN clients

\* The bytes of the stream the client has read
Delivered == Len(StreamBytes(msg)) - Len(pending)

\* The stream begins with a frame whose body is no response, and has only
\* frames
JunkThenFrames ==
    /\ msg[1].kind = "frame"
    /\ msg[1].body = ServerNotification
    /\ Len(msg) > 1 => msg[2].kind = "frame"

\* C25: a complete frame whose body is no JSON-RPC response is taken out
\* of the receive buffer and dropped: no response is queued for it, the
\* ongoing requests stay as they were and the client stays; the frame
\* after it is parsed as if it were the first, its response dispatched.
C25_JunkFrameDropped ==
    (JunkThenFrames /\ Delivered >= Len(BlockBytes(msg[1]))) =>
        LET all_read == Len(msg) > 1 /\ pending = <<>>
            response_read == all_read /\ msg[2].body # ServerNotification
        IN  /\ read_status = "ok"
            /\ call.result = "true"
            /\ call.fault = "none"
            /\ "a" \in DOMAIN clients
            /\ recv_buf = IF all_read THEN <<>>
                          ELSE SubSeq(StreamBytes(msg),
                                      Len(BlockBytes(msg[1])) + 1, Delivered)
            /\ recv_buf_offset = Len(recv_buf)
            /\ parsed = IF response_read THEN <<InitializeResponse>>
                        ELSE <<>>
            /\ clients["a"].ongoing_requests =
                   IF response_read THEN EmptyMap
                   ELSE [n \in {0} |-> TagInitialize]
            /\ response_read =>
                   clients["a"].semantic_token_types = FlowLegend

C25_Witness ==
    /\ JunkThenFrames
    /\ Len(msg) > 1
    /\ msg[2].body = to_vec(InitializeResponse)
    /\ pending = <<>>
    /\ pieces = MaxPieces
    /\ parsed = <<InitializeResponse>>
    /\ "a" \in DOMAIN clients

\* The stream with every header key written as LspClient::send writes it
Canonical(stream) ==
    [i \in DOMAIN stream |-> Frame("Content-Length", stream[i].body)]

OnlyFrames == \A i \in DOMAIN msg : msg[i].kind = "frame"

\* C26: the key of the length header is matched without regard to case:
\* whatever the casing of the keys of a stream of frames, the client has
\* parsed, of the bytes it has read, the responses it parses of the same
\* bytes with the keys written Content-Length, holds as many bytes back,
\* and has met no error.
C26_HeaderKeyAnyCase ==
    OnlyFrames =>
        LET r == read_response(
                     SubSeq(StreamBytes(Canonical(msg)), 1, Delivered),
                     <<>>, 0, RECV_BUF_SIZE, <<>>)
        IN  /\ read_status = "ok"
            /\ r.status = "ok"
            /\ parsed = r.responses
            /\ recv_buf_offset = r.recv_buf_offset

C26_Witness ==
    /\ Len(msg) = 1
    /\ msg[1] = Frame("CONTENT-LENGTH", to_vec(InitializeResponse))
    /\ pending = <<>>
    /\ pieces = MaxPieces
    /\ parsed = <<InitializeResponse>>

====
